---------------------------- MODULE Spec2Model ----------------------------
(***************************************************************************)
(* A model of COLLADAMaya's GeometryImporter                               *)
(* (src/COLLADAMaya/src/COLLADAMayaGeometryImporter.cpp).                  *)
(*                                                                         *)
(* The importer converts a COLLADAFW mesh (primitives with flat index      *)
(* streams) into a Maya mesh: a list of unique undirected edges and a      *)
(* stream of polyFaces records that reference the edges by signed index.   *)
(*                                                                         *)
(* C++ containers are 0-based; TLA+ sequences are 1-based.  At(s, i) reads *)
(* the C++ element s[i].                                                   *)
(***************************************************************************)
EXTENDS Integers, Sequences, FiniteSets, TLC

(***************************************************************************)
(* Bounds of the model.                                                    *)
(***************************************************************************)
\* Vertex position indices are 0..MaxVertex.
MaxVertex == 2
\* A primitive's position index stream has at most MaxStreamLen entries.
MaxStreamLen == 6

VertexIds == 0..MaxVertex

\* A triangle has three vertices and three edges; it is the smallest polygon,
\* hole, fan or strip of the inputs.
TriangleVertexCount == 3

(***************************************************************************)
(* Helpers for C++ containers.                                             *)
(***************************************************************************)
At(s, i) == s[i + 1]

InRange(s, i) == i >= 0 /\ i < Len(s)

RECURSIVE SumAbs(_)
SumAbs(s) == IF s = <<>> THEN 0
             ELSE (IF Head(s) < 0 THEN -Head(s) ELSE Head(s)) + SumAbs(Tail(s))


(***************************************************************************)
(* COLLADAFW::Edge: the two vertex indices stored in ascending order and a *)
(* flag telling that the edge was given in the other direction.            *)
(***************************************************************************)
Edge(index1, index2) ==
    IF index1 < index2
    THEN [v |-> <<index1, index2>>, reverse |-> FALSE]
    ELSE [v |-> <<index2, index1>>, reverse |-> TRUE]

isReverse(edge) == edge.reverse

(***************************************************************************)
(* The edge table of one mesh conversion: the vector edgeIndices (the      *)
(* edges in the order they were found) and the map edgeIndicesMap from an  *)
(* edge to its position in the vector.                                     *)
(***************************************************************************)
EmptyEdgeTable == [edgeIndices |-> <<>>, edgeIndicesMap |-> [k \in {} |-> 0]]

\* COLLADAFW::MeshPrimitive::appendEdge: a new edge gets the next index.
appendEdge(table, edge) ==
    IF edge.v \in DOMAIN table.edgeIndicesMap
    THEN table
    ELSE [edgeIndices |-> Append(table.edgeIndices, edge.v),
          edgeIndicesMap |->
              [k \in DOMAIN table.edgeIndicesMap \cup {edge.v} |->
                  IF k = edge.v THEN Len(table.edgeIndices)
                  ELSE table.edgeIndicesMap[k]]]

RECURSIVE appendEdges(_, _)
appendEdges(table, pairs) ==
    IF pairs = <<>> THEN table
    ELSE appendEdges(appendEdge(table, Edge(Head(pairs)[1], Head(pairs)[2])),
                     Tail(pairs))

(***************************************************************************)
(* The directed vertex pairs of one group of a primitive, for a group of   *)
(* n vertices that starts at offset s of the position index stream P.      *)
(***************************************************************************)
\* A polygon or hole: consecutive pairs, the last one closing to the first.
PolygonGroupEdges(P, s, n) ==
    [j \in 1..n |-> <<At(P, s + j - 1), At(P, s + (j % n))>>]

\* A fan: triangle i = 1..n-2 is (v0, v[i], v[i+1]).
FanGroupEdges(P, s, n) ==
    [e \in 1..(3 * (n - 2)) |->
        LET i == ((e - 1) \div 3) + 1
            c == (e - 1) % 3
        IN  CASE c = 0 -> <<At(P, s), At(P, s + i)>>
              [] c = 1 -> <<At(P, s + i), At(P, s + i + 1)>>
              [] c = 2 -> <<At(P, s + i + 1), At(P, s)>>]

\* A strip: triangle i = 0..n-3 is the window (v[i], v[i+1], v[i+2]).
StripGroupEdges(P, s, n) ==
    [e \in 1..(3 * (n - 2)) |->
        LET i == (e - 1) \div 3
            c == (e - 1) % 3
        IN  CASE c = 0 -> <<At(P, s + i), At(P, s + i + 1)>>
              [] c = 1 -> <<At(P, s + i + 1), At(P, s + i + 2)>>
              [] c = 2 -> <<At(P, s + i + 2), At(P, s + i)>>]

Abs(x) == IF x < 0 THEN -x ELSE x

\* The offset in the position index stream at which group g (1-based) starts.
GroupStart(counts, g) == SumAbs(SubSeq(counts, 1, g - 1))

IsPolygonType(type) == type \in {"POLYGONS", "POLYLIST", "TRIANGLES"}

GroupEdges(prim, g) ==
    LET s == GroupStart(prim.counts, g)
        n == Abs(prim.counts[g])
    IN  CASE prim.type = "TRIANGLE_FANS" -> FanGroupEdges(prim.positionIndices, s, n)
          [] prim.type = "TRIANGLE_STRIPS" -> StripGroupEdges(prim.positionIndices, s, n)
          [] IsPolygonType(prim.type) -> PolygonGroupEdges(prim.positionIndices, s, n)
          [] OTHER -> <<>>

RECURSIVE PrimitiveEdgesFrom(_, _)
PrimitiveEdgesFrom(prim, g) ==
    IF g > Len(prim.counts) THEN <<>>
    ELSE GroupEdges(prim, g) \o PrimitiveEdgesFrom(prim, g + 1)

\* COLLADAFW::MeshPrimitive::appendEdgeIndices: the edges of every group of
\* the primitive, in stream order, each entered once.
appendEdgeIndices(prim, table) == appendEdges(table, PrimitiveEdgesFrom(prim, 1))

\* GeometryImporter::getEdgeIndices: all primitives in order share one table.
RECURSIVE getEdgeIndicesFrom(_, _, _)
getEdgeIndicesFrom(mesh, i, table) ==
    IF i > Len(mesh.prims) THEN table
    ELSE getEdgeIndicesFrom(mesh, i + 1, appendEdgeIndices(mesh.prims[i], table))

getEdgeIndices(mesh) == getEdgeIndicesFrom(mesh, 1, EmptyEdgeTable)

(***************************************************************************)
(* GeometryImporter::getEdgeIndex: the signed reference of an edge.  An    *)
(* edge given against its stored direction is written -(index + 1).  A     *)
(* look-up that misses reads through the map's end iterator: the value     *)
(* read is whatever the build finds there (oob) and ub is set.             *)
(***************************************************************************)
\* A variant that is off by one.
ReverseReference_OffByOne(edgeIndex) == -(edgeIndex + 2)

ReverseReference(edgeIndex) == -(edgeIndex + 1)

\* A variant that does not look at the direction of the edge.
getEdgeIndex_Undirected(edge, edgeIndicesMap, oob) ==
    LET found == edge.v \in DOMAIN edgeIndicesMap
    IN  [edgeIndex |-> IF found THEN edgeIndicesMap[edge.v] ELSE oob, ub |-> ~found]

getEdgeIndex(edge, edgeIndicesMap, oob) ==
    LET found == edge.v \in DOMAIN edgeIndicesMap
        second == IF found THEN edgeIndicesMap[edge.v] ELSE oob
    IN  [edgeIndex |-> IF isReverse(edge) THEN ReverseReference(second) ELSE second,
         ub |-> ~found]

(***************************************************************************)
(* Reads of the input streams.  A read outside a stream is undefined in    *)
(* the C++ code: it yields the value oob and is reported in ub.            *)
(***************************************************************************)
getIndex(indices, position, oob) ==
    IF InRange(indices, position) THEN At(indices, position) ELSE oob

\* COLLADABU::Math::Vector3 arithmetic on <<x, y, z>>.
VectorSub(a, b) == <<a[1] - b[1], a[2] - b[2], a[3] - b[3]>>

crossProduct(a, b) ==
    <<a[2] * b[3] - a[3] * b[2], a[3] * b[1] - a[1] * b[3], a[1] * b[2] - a[2] * b[1]>>

dotProduct(a, b) == a[1] * b[1] + a[2] * b[2] + a[3] * b[3]

\* GeometryImporter::getVertexPosition: the position of a vertex index.
IsFloatingType(type) == type \in {"FLOAT", "DOUBLE"}

\* With a value type that is neither float nor double the coordinates are
\* returned uninitialized.
getVertexPosition(mesh, vertexIndex, oob) ==
    IF IsFloatingType(mesh.positionsType) /\ vertexIndex \in DOMAIN mesh.positions
    THEN mesh.positions[vertexIndex]
    ELSE <<oob, oob, oob>>

(***************************************************************************)
(* GeometryImporter::changeHoleOrientation: true when the normals of the   *)
(* parent polygon and of the hole, each taken over its first three points, *)
(* point to the same side.                                                 *)
(***************************************************************************)
\* A variant that takes perpendicular and degenerate normals for alike.
SameOrientation_OrZero(polyCrossProduct, holeCrossProduct) ==
    dotProduct(polyCrossProduct, holeCrossProduct) >= 0

SameOrientation(polyCrossProduct, holeCrossProduct) ==
    dotProduct(polyCrossProduct, holeCrossProduct) > 0

changeHoleOrientation(polygonPoints, holePoints) ==
    LET p1 == VectorSub(polygonPoints[2], polygonPoints[1])
        p2 == VectorSub(polygonPoints[3], polygonPoints[1])
        polyCrossProduct == crossProduct(p1, p2)
        h1 == VectorSub(holePoints[2], holePoints[1])
        h2 == VectorSub(holePoints[3], holePoints[1])
        holeCrossProduct == crossProduct(h1, h2)
    IN  SameOrientation(polyCrossProduct, holeCrossProduct)

(***************************************************************************)
(* MayaDM::polyFaces: the face edge references f, the hole edge references *)
(* h, and the per-channel attribute indices mu (UV sets) and mc (colors).  *)
(***************************************************************************)
EmptyPolyFace == [f |-> <<>>, h |-> <<>>, mu |-> <<>>, mc |-> <<>>]

\* GeometryImporter::changePolyFaceHoleOrientation: the hole's references
\* in reverse order, each one with its direction toggled.
\* A variant that only changes the sign.
ToggleReference_Negate(edgeIndexValue) == edgeIndexValue * (-1)

ToggleReference(edgeIndexValue) == (edgeIndexValue + 1) * (-1)

\* A variant that leaves the hole as it was read.
changePolyFaceHoleOrientation_Unturned(polyFace) == polyFace

changePolyFaceHoleOrientation(polyFace) ==
    LET numEdges == Len(polyFace.h)
        valueVec == [j \in 1..numEdges |-> ToggleReference(polyFace.h[numEdges + 1 - j])]
    IN  [polyFace EXCEPT !.h = valueVec]

(***************************************************************************)
(* GeometryImporter::setUVSetInfos and setColorInfos: for every index list *)
(* of the primitive, the next numEdges indices from the cursor on, each    *)
(* less the list's initial index; the cursor then moves on by numEdges.    *)
(* A cursor is a size_t: the model writes a value that wrapped below zero  *)
(* as the negative number it is congruent to modulo 2^64.                  *)
(***************************************************************************)
\* A variant that starts every slice at the head of the stream.
SliceStart_Restart(indicesIndex, j) == j

SliceStart(indicesIndex, j) == j + indicesIndex

sliceIndexList(indexList, indicesIndex, numEdges, oob) ==
    [set |-> indexList.set,
     ids |-> [j \in 1..numEdges |->
                 getIndex(indexList.indices, SliceStart(indicesIndex, j - 1), oob)
                     - indexList.initialIndex]]

sliceUb(indexList, indicesIndex, numEdges) ==
    \E j \in 0..(numEdges - 1) : ~InRange(indexList.indices, SliceStart(indicesIndex, j))

AdvanceCursor(indicesIndex, numEdges) == indicesIndex + numEdges

setUVSetInfos(prim, uvSetIndicesIndex, numEdges, oob) ==
    [sets |-> [i \in 1..Len(prim.uv) |->
                  sliceIndexList(prim.uv[i], uvSetIndicesIndex, numEdges, oob)],
     index |-> AdvanceCursor(uvSetIndicesIndex, numEdges),
     ub |-> \E i \in 1..Len(prim.uv) : sliceUb(prim.uv[i], uvSetIndicesIndex, numEdges)]

setColorInfos(prim, colorIndicesIndex, numEdges, oob) ==
    [sets |-> [i \in 1..Len(prim.color) |->
                  sliceIndexList(prim.color[i], colorIndicesIndex, numEdges, oob)],
     index |-> AdvanceCursor(colorIndicesIndex, numEdges),
     ub |-> \E i \in 1..Len(prim.color) : sliceUb(prim.color[i], colorIndicesIndex, numEdges)]

(***************************************************************************)
(* The decoders return the polyFaces records they append to the mesh node  *)
(* (faces) and, for each record, a note of how it came about (notes):      *)
(*   kind         "face" or "hole"                                         *)
(*   pairs        the (start, end) vertex pairs the decoder formed         *)
(*   raw          the edge references as looked up, before any flip        *)
(*   group        the index of the group the record was decoded from       *)
(*   start, next  the position cursor before and after the record          *)
(*   polygonPoints, holePoints, changed   the hole orientation test        *)
(* and the cursors held at the end of each group (cursors).  The notes and *)
(* the cursors are history: no code reads them.                            *)
(***************************************************************************)
EmptyDecode == [faces |-> <<>>, notes |-> <<>>, cursors |-> <<>>, ub |-> FALSE]

FaceNote(group, pairs, raw, start, next) ==
    [kind |-> "face", group |-> group, pairs |-> pairs, raw |-> raw,
     start |-> start, next |-> next,
     polygonPoints |-> <<>>, holePoints |-> <<>>, changed |-> FALSE]

HoleNote(group, pairs, raw, start, next, polygonPoints, holePoints, changed) ==
    [kind |-> "hole", group |-> group, pairs |-> pairs, raw |-> raw,
     start |-> start, next |-> next,
     polygonPoints |-> polygonPoints, holePoints |-> holePoints, changed |-> changed]

\* The cursors a decoder holds when it has finished a group.
Cursors(positionIndex, uvSetIndicesIndex, colorIndicesIndex) ==
    [positionIndex |-> positionIndex, uvSetIndicesIndex |-> uvSetIndicesIndex,
     colorIndicesIndex |-> colorIndicesIndex]

(***************************************************************************)
(* What a decoder works on: the mesh, the primitive, the edge map and the  *)
(* value oob that reads outside a container yield.                         *)
(***************************************************************************)
DecodeEnv(mesh, prim, edgeIndicesMap, oob) ==
    [mesh |-> mesh, prim |-> prim, edgeIndicesMap |-> edgeIndicesMap, oob |-> oob]

(***************************************************************************)
(* GeometryImporter::setPolygonFaceInfos: the edges of one polygon.        *)
(***************************************************************************)
\* Whether a face's edge gives a point for the hole orientation test.
KeepsPolygonPoint(prim, edgeIndex) == prim.type = "POLYGONS" /\ edgeIndex < 3

\* A variant that closes the polygon one entry too early.
ClosingOffset_OffByOne(positionIndex, numEdges) == positionIndex - numEdges

\* The stream offset of the end vertex of the closing edge.
ClosingOffset(positionIndex, numEdges) == positionIndex - numEdges + 1

RECURSIVE setPolygonFaceEdges(_, _, _, _)
setPolygonFaceEdges(env, numEdges, edgeIndex, st) ==
    IF edgeIndex >= numEdges THEN st
    ELSE
      LET P == env.prim.positionIndices
          edgeStartVtxIndex == getIndex(P, st.positionIndex, env.oob)
          inner == edgeIndex < numEdges - 1
          positionIndex == IF inner THEN st.positionIndex + 1 ELSE st.positionIndex
          endOffset == IF inner THEN positionIndex
                       ELSE ClosingOffset(positionIndex, numEdges)
          edgeEndVtxIndex == getIndex(P, endOffset, env.oob)
          edge == Edge(edgeStartVtxIndex, edgeEndVtxIndex)
          cleared == IF edgeIndex = 0 /\ Len(st.polygonPoints) > 0
                     THEN <<>> ELSE st.polygonPoints
          polygonPoints ==
              IF KeepsPolygonPoint(env.prim, edgeIndex)
              THEN Append(cleared, getVertexPosition(env.mesh, edgeStartVtxIndex, env.oob))
              ELSE st.polygonPoints
          ref == getEdgeIndex(edge, env.edgeIndicesMap, env.oob)
      IN  setPolygonFaceEdges(env, numEdges, edgeIndex + 1,
              [positionIndex |-> positionIndex,
               edgeIdValue |-> Append(st.edgeIdValue, ref.edgeIndex),
               pairs |-> Append(st.pairs, <<edgeStartVtxIndex, edgeEndVtxIndex>>),
               polygonPoints |-> polygonPoints,
               ub |-> st.ub \/ ref.ub \/ ~InRange(P, st.positionIndex)
                        \/ ~InRange(P, endOffset)])

setPolygonFaceInfos(env, group, numEdges, positionIndex, polygonPoints) ==
    LET st == setPolygonFaceEdges(env, numEdges, 0,
                  [positionIndex |-> positionIndex, edgeIdValue |-> <<>>,
                   pairs |-> <<>>, polygonPoints |-> polygonPoints, ub |-> FALSE])
    IN  [polyFace |-> [EmptyPolyFace EXCEPT !.f = st.edgeIdValue],
         note |-> FaceNote(group, st.pairs, st.edgeIdValue, positionIndex,
                           st.positionIndex + 1),
         positionIndex |-> st.positionIndex + 1,
         polygonPoints |-> st.polygonPoints,
         ub |-> st.ub]

(***************************************************************************)
(* GeometryImporter::setPolygonHoleInfos: the edges of one hole, turned    *)
(* round when the hole is oriented like its polygon.                       *)
(***************************************************************************)
RECURSIVE setPolygonHoleEdges(_, _, _, _)
setPolygonHoleEdges(env, numEdges, edgeIndex, st) ==
    IF edgeIndex >= numEdges THEN st
    ELSE
      LET P == env.prim.positionIndices
          edgeStartVtxIndex == getIndex(P, st.positionIndex, env.oob)
          inner == edgeIndex < numEdges - 1
          positionIndex == IF inner THEN st.positionIndex + 1 ELSE st.positionIndex
          endOffset == IF inner THEN positionIndex
                       ELSE ClosingOffset(positionIndex, numEdges)
          edgeEndVtxIndex == getIndex(P, endOffset, env.oob)
          edge == Edge(edgeStartVtxIndex, edgeEndVtxIndex)
          holePoints ==
              IF edgeIndex < 3
              THEN Append(st.holePoints, getVertexPosition(env.mesh, edgeStartVtxIndex, env.oob))
              ELSE st.holePoints
          ref == getEdgeIndex(edge, env.edgeIndicesMap, env.oob)
      IN  setPolygonHoleEdges(env, numEdges, edgeIndex + 1,
              [positionIndex |-> positionIndex,
               edgeIdValue |-> Append(st.edgeIdValue, ref.edgeIndex),
               pairs |-> Append(st.pairs, <<edgeStartVtxIndex, edgeEndVtxIndex>>),
               holePoints |-> holePoints,
               ub |-> st.ub \/ ref.ub \/ ~InRange(P, st.positionIndex)
                        \/ ~InRange(P, endOffset)])

\* The orientation test reads three points of each buffer; with fewer the
\* read is outside the vector and the outcome is the build's (oob).
HoleTest(polygonPoints, holePoints, oob) ==
    IF Len(polygonPoints) >= 3 /\ Len(holePoints) >= 3
    THEN changeHoleOrientation(polygonPoints, holePoints)
    ELSE oob > 0

setPolygonHoleInfos(env, group, numVertices, positionIndex, polygonPoints) ==
    LET numEdges == numVertices * (-1)
        st == setPolygonHoleEdges(env, numEdges, 0,
                  [positionIndex |-> positionIndex, edgeIdValue |-> <<>>,
                   pairs |-> <<>>, holePoints |-> <<>>, ub |-> FALSE])
        asRead == [EmptyPolyFace EXCEPT !.h = st.edgeIdValue]
        changed == HoleTest(polygonPoints, st.holePoints, env.oob)
    IN  [polyFace |-> IF changed THEN changePolyFaceHoleOrientation(asRead) ELSE asRead,
         note |-> HoleNote(group, st.pairs, st.edgeIdValue, positionIndex,
                           st.positionIndex + 1, polygonPoints, st.holePoints, changed),
         numEdges |-> numEdges,
         positionIndex |-> st.positionIndex + 1,
         polygonPoints |-> polygonPoints,
         ub |-> st.ub \/ Len(polygonPoints) < 3 \/ Len(st.holePoints) < 3]

(***************************************************************************)
(* GeometryImporter::appendPolygonPolyFaces: one polyFaces record for each *)
(* grouped-vertex count of a polygons, polylist or triangles primitive; a  *)
(* negative count is a hole of the polygon before it.                      *)
(***************************************************************************)
\* A variant that takes no group for a hole.
IsHoleCount_Never(numEdges) == FALSE

IsHoleCount(numEdges) == ~(numEdges >= 0)

\* The decoder's state after a group, given the group's face or hole infos
\* and its UV and color slices.
appendFace(st, info, uv, col) ==
    [positionIndex |-> info.positionIndex,
     uvSetIndicesIndex |-> uv.index,
     colorIndicesIndex |-> col.index,
     polygonPoints |-> info.polygonPoints,
     out |-> [faces |-> Append(st.out.faces,
                            [info.polyFace EXCEPT !.mu = uv.sets, !.mc = col.sets]),
              notes |-> Append(st.out.notes, info.note),
              cursors |-> Append(st.out.cursors,
                              Cursors(info.positionIndex, uv.index, col.index)),
              ub |-> st.out.ub \/ info.ub \/ uv.ub \/ col.ub]]

\* The slices of a group of numEdges edges, which setPolygonHoleInfos has
\* made positive for a hole.
appendSlicedFace(env, st, info, numEdges) ==
    appendFace(st, info,
               setUVSetInfos(env.prim, st.uvSetIndicesIndex, numEdges, env.oob),
               setColorInfos(env.prim, st.colorIndicesIndex, numEdges, env.oob))

\* A variant that slices the attributes of a hole with the count as read.
appendPolygonGroup_SignedCount(env, groupedVtxIndex, numVertices, st) ==
    appendSlicedFace(env, st,
        IF IsHoleCount(numVertices)
        THEN setPolygonHoleInfos(env, groupedVtxIndex, numVertices,
                                 st.positionIndex, st.polygonPoints)
        ELSE setPolygonFaceInfos(env, groupedVtxIndex, numVertices,
                                 st.positionIndex, st.polygonPoints),
        numVertices)

appendPolygonGroup(env, groupedVtxIndex, numVertices, st) ==
    IF IsHoleCount(numVertices)
    THEN appendSlicedFace(env, st,
             setPolygonHoleInfos(env, groupedVtxIndex, numVertices,
                                 st.positionIndex, st.polygonPoints),
             numVertices * (-1))
    ELSE appendSlicedFace(env, st,
             setPolygonFaceInfos(env, groupedVtxIndex, numVertices,
                                 st.positionIndex, st.polygonPoints),
             numVertices)

RECURSIVE appendPolygonGroups(_, _, _)
appendPolygonGroups(env, groupedVtxIndex, st) ==
    IF groupedVtxIndex >= Len(env.prim.counts) THEN st.out
    ELSE appendPolygonGroups(env, groupedVtxIndex + 1,
             appendPolygonGroup(env, groupedVtxIndex,
                                At(env.prim.counts, groupedVtxIndex), st))

appendPolygonPolyFaces(env) ==
    appendPolygonGroups(env, 0,
        [positionIndex |-> 0, uvSetIndicesIndex |-> 0, colorIndicesIndex |-> 0,
         polygonPoints |-> <<>>, out |-> EmptyDecode])

(***************************************************************************)
(* GeometryImporter::appendTrifansPolyFaces.  Every triangle of a fan is   *)
(* its own polyFaces record of three edges.                                *)
(***************************************************************************)
\* unsigned int has UIntBits bits.  A value is held as its two halves of
\* UIntBits \div 2 bits, value = hi * HalfRange + lo, and the arithmetic is
\* modulo HalfRange * HalfRange.
UIntBits == 32
HalfRange == 2 ^ (UIntBits \div 2)

UInt(n) == [hi |-> (n \div HalfRange) % HalfRange, lo |-> n % HalfRange]

UIntAdd(a, b) ==
    [hi |-> (a.hi + b.hi + (a.lo + b.lo) \div HalfRange) % HalfRange,
     lo |-> (a.lo + b.lo) % HalfRange]

UIntSub(a, b) ==
    [hi |-> (a.hi - b.hi - (IF a.lo < b.lo THEN 1 ELSE 0) + 2 * HalfRange) % HalfRange,
     lo |-> (a.lo - b.lo + HalfRange) % HalfRange]

\* The product with a small factor.
UIntMul(a, factor) ==
    [hi |-> (a.hi * factor + (a.lo * factor) \div HalfRange) % HalfRange,
     lo |-> (a.lo * factor) % HalfRange]

\* The number of edge steps of a group of vertexCount vertices, computed in
\* unsigned int: ( vertexCount - 3 ) * 3 + 3.
TriangleGroupEdges(vertexCount) ==
    UIntAdd(UIntMul(UIntSub(UInt(vertexCount), UInt(TriangleVertexCount)),
                    TriangleVertexCount),
            UInt(TriangleVertexCount))

\* The model follows the edge loop of one group for at most MaxLoopSteps
\* steps; a loop that would go on is cut there and marked (ub).
MaxLoopSteps == 18
LoopCut(numEdges) == numEdges.hi > 0 \/ numEdges.lo > MaxLoopSteps
LoopSteps(numEdges) == IF LoopCut(numEdges) THEN MaxLoopSteps ELSE numEdges.lo

\* A variant that leaves the cursor behind the three indices taken.
AfterTriangleSlice_Kept(indicesIndex) == indicesIndex

\* The cursor of an attribute stream after the three indices of a triangle
\* were taken: it steps back by two, onto the triangle's second vertex.
AfterTriangleSlice(indicesIndex) == indicesIndex - 2

\* A variant that starts every edge at the position cursor, as a strip does.
FanEdgeStart_Cursor(triangleEdgeCounter, positionIndex, initialPositionIndex) ==
    positionIndex

\* The stream offset of the start vertex of a fan triangle's edge.
FanEdgeStart(triangleEdgeCounter, positionIndex, initialPositionIndex) ==
    IF triangleEdgeCounter > 1 THEN positionIndex ELSE initialPositionIndex

RECURSIVE appendTrifanEdges(_, _, _, _)
appendTrifanEdges(env, numEdges, edgeIndex, st) ==
    IF edgeIndex >= numEdges THEN st
    ELSE
      LET P == env.prim.positionIndices
          triangleEdgeCounter == st.triangleEdgeCounter + 1
          edgeIdValue0 == IF st.triangleEdgeCounter = 0 THEN <<>> ELSE st.edgeIdValue
          pairs0 == IF st.triangleEdgeCounter = 0 THEN <<>> ELSE st.pairs
          startOffset == FanEdgeStart(triangleEdgeCounter, st.positionIndex,
                                      st.initialPositionIndex)
          edgeStartVtxIndex == getIndex(P, startOffset, env.oob)
          positionIndex == IF triangleEdgeCounter < 3 THEN st.positionIndex + 1
                           ELSE st.positionIndex
          endOffset == IF triangleEdgeCounter < 3 THEN positionIndex
                       ELSE st.initialPositionIndex
          edgeEndVtxIndex == getIndex(P, endOffset, env.oob)
          ref == getEdgeIndex(Edge(edgeStartVtxIndex, edgeEndVtxIndex),
                              env.edgeIndicesMap, env.oob)
          edgeIdValue == Append(edgeIdValue0, ref.edgeIndex)
          pairs == Append(pairs0, <<edgeStartVtxIndex, edgeEndVtxIndex>>)
          ub == st.out.ub \/ ref.ub \/ ~InRange(P, startOffset) \/ ~InRange(P, endOffset)
          uv == setUVSetInfos(env.prim, st.uvSetIndicesIndex, 3, env.oob)
          col == setColorInfos(env.prim, st.colorIndicesIndex, 3, env.oob)
          polyFace == [f |-> edgeIdValue, h |-> <<>>, mu |-> uv.sets, mc |-> col.sets]
      IN  IF triangleEdgeCounter = 3
          THEN appendTrifanEdges(env, numEdges, edgeIndex + 1,
                  [st EXCEPT !.triangleEdgeCounter = 0,
                             !.positionIndex = positionIndex - 1,
                             !.edgeIdValue = edgeIdValue,
                             !.pairs = pairs,
                             !.uvSetIndicesIndex = AfterTriangleSlice(uv.index),
                             !.colorIndicesIndex = AfterTriangleSlice(col.index),
                             !.out = [st.out EXCEPT
                                 !.faces = Append(@, polyFace),
                                 !.notes = Append(@,
                                     FaceNote(st.group, pairs, edgeIdValue,
                                              st.positionIndex - 2, positionIndex - 1)),
                                 !.ub = ub \/ uv.ub \/ col.ub]])
          ELSE appendTrifanEdges(env, numEdges, edgeIndex + 1,
                  [st EXCEPT !.triangleEdgeCounter = triangleEdgeCounter,
                             !.positionIndex = positionIndex,
                             !.edgeIdValue = edgeIdValue,
                             !.pairs = pairs,
                             !.out = [st.out EXCEPT !.ub = ub]])

\* The cursors after a whole fan: the position cursor and the attribute
\* cursors step over the fan's last two vertices.
AfterFanPosition(positionIndex) == positionIndex + 2

AfterFanInitialPosition(initialPositionIndex, vertexCount) ==
    initialPositionIndex + vertexCount

AfterFanSlices(indicesIndex) == indicesIndex + 2

RECURSIVE appendTrifanGroups(_, _, _)
appendTrifanGroups(env, groupedVerticesIndex, st) ==
    IF groupedVerticesIndex >= Len(env.prim.counts) THEN st
    ELSE
      LET vertexCount == At(env.prim.counts, groupedVerticesIndex)
          numEdges == TriangleGroupEdges(vertexCount)
          done == appendTrifanEdges(env, LoopSteps(numEdges), 0,
                      [st EXCEPT !.triangleEdgeCounter = 0,
                                 !.group = groupedVerticesIndex])
      IN  appendTrifanGroups(env, groupedVerticesIndex + 1,
              [done EXCEPT
                  !.positionIndex = AfterFanPosition(done.positionIndex),
                  !.initialPositionIndex =
                      AfterFanInitialPosition(done.initialPositionIndex, vertexCount),
                  !.uvSetIndicesIndex = AfterFanSlices(done.uvSetIndicesIndex),
                  !.colorIndicesIndex = AfterFanSlices(done.colorIndicesIndex),
                  !.out = [done.out EXCEPT
                      !.ub = @ \/ LoopCut(numEdges),
                      !.cursors = Append(@,
                      Cursors(AfterFanPosition(done.positionIndex),
                              AfterFanSlices(done.uvSetIndicesIndex),
                              AfterFanSlices(done.colorIndicesIndex)))]])

TriangleGroupsStart ==
    [positionIndex |-> 0, initialPositionIndex |-> 0, triangleEdgeCounter |-> 0,
     edgeIdValue |-> <<>>, pairs |-> <<>>, group |-> 0,
     uvSetIndicesIndex |-> 0, colorIndicesIndex |-> 0, out |-> EmptyDecode]

appendTrifansPolyFaces(env) == appendTrifanGroups(env, 0, TriangleGroupsStart).out

(***************************************************************************)
(* GeometryImporter::appendTristripsPolyFaces.  Every triangle of a strip  *)
(* is its own polyFaces record of three edges.                             *)
(***************************************************************************)
\* A variant that keeps the root of the strip's first triangle, as a fan does.
AfterStripTriangleRoot_Kept(positionIndex, initialPositionIndex) == initialPositionIndex

\* The root of the next triangle of a strip: the position cursor.
AfterStripTriangleRoot(positionIndex, initialPositionIndex) == positionIndex

RECURSIVE appendTristripEdges(_, _, _, _)
appendTristripEdges(env, numEdges, edgeIndex, st) ==
    IF edgeIndex >= numEdges THEN st
    ELSE
      LET P == env.prim.positionIndices
          triangleEdgeCounter == st.triangleEdgeCounter + 1
          edgeIdValue0 == IF st.triangleEdgeCounter = 0 THEN <<>> ELSE st.edgeIdValue
          pairs0 == IF st.triangleEdgeCounter = 0 THEN <<>> ELSE st.pairs
          startOffset == st.positionIndex
          edgeStartVtxIndex == getIndex(P, startOffset, env.oob)
          positionIndex == IF triangleEdgeCounter < 3 THEN st.positionIndex + 1
                           ELSE st.positionIndex
          endOffset == IF triangleEdgeCounter < 3 THEN positionIndex
                       ELSE st.initialPositionIndex
          edgeEndVtxIndex == getIndex(P, endOffset, env.oob)
          ref == getEdgeIndex(Edge(edgeStartVtxIndex, edgeEndVtxIndex),
                              env.edgeIndicesMap, env.oob)
          edgeIdValue == Append(edgeIdValue0, ref.edgeIndex)
          pairs == Append(pairs0, <<edgeStartVtxIndex, edgeEndVtxIndex>>)
          ub == st.out.ub \/ ref.ub \/ ~InRange(P, startOffset) \/ ~InRange(P, endOffset)
          uv == setUVSetInfos(env.prim, st.uvSetIndicesIndex, 3, env.oob)
          col == setColorInfos(env.prim, st.colorIndicesIndex, 3, env.oob)
          polyFace == [f |-> edgeIdValue, h |-> <<>>, mu |-> uv.sets, mc |-> col.sets]
      IN  IF triangleEdgeCounter = 3
          THEN appendTristripEdges(env, numEdges, edgeIndex + 1,
                  [st EXCEPT !.triangleEdgeCounter = 0,
                             !.positionIndex = positionIndex - 1,
                             !.initialPositionIndex =
                                 AfterStripTriangleRoot(positionIndex - 1,
                                                        st.initialPositionIndex),
                             !.edgeIdValue = edgeIdValue,
                             !.pairs = pairs,
                             !.uvSetIndicesIndex = AfterTriangleSlice(uv.index),
                             !.colorIndicesIndex = AfterTriangleSlice(col.index),
                             !.out = [st.out EXCEPT
                                 !.faces = Append(@, polyFace),
                                 !.notes = Append(@,
                                     FaceNote(st.group, pairs, edgeIdValue,
                                              st.positionIndex - 2, positionIndex - 1)),
                                 !.ub = ub \/ uv.ub \/ col.ub]])
          ELSE appendTristripEdges(env, numEdges, edgeIndex + 1,
                  [st EXCEPT !.triangleEdgeCounter = triangleEdgeCounter,
                             !.positionIndex = positionIndex,
                             !.edgeIdValue = edgeIdValue,
                             !.pairs = pairs,
                             !.out = [st.out EXCEPT !.ub = ub]])

\* The cursors after a whole strip.
AfterStripPosition(positionIndex) == positionIndex + 2

AfterStripSlices(indicesIndex) == indicesIndex - 2

RECURSIVE appendTristripGroups(_, _, _)
appendTristripGroups(env, groupedVerticesIndex, st) ==
    IF groupedVerticesIndex >= Len(env.prim.counts) THEN st
    ELSE
      LET vertexCount == At(env.prim.counts, groupedVerticesIndex)
          numEdges == TriangleGroupEdges(vertexCount)
          done == appendTristripEdges(env, LoopSteps(numEdges), 0,
                      [st EXCEPT !.triangleEdgeCounter = 0,
                                 !.group = groupedVerticesIndex])
      IN  appendTristripGroups(env, groupedVerticesIndex + 1,
              [done EXCEPT
                  !.positionIndex = AfterStripPosition(done.positionIndex),
                  !.initialPositionIndex = AfterStripPosition(done.positionIndex),
                  !.uvSetIndicesIndex = AfterStripSlices(done.uvSetIndicesIndex),
                  !.colorIndicesIndex = AfterStripSlices(done.colorIndicesIndex),
                  !.out = [done.out EXCEPT
                      !.ub = @ \/ LoopCut(numEdges),
                      !.cursors = Append(@,
                      Cursors(AfterStripPosition(done.positionIndex),
                              AfterStripSlices(done.uvSetIndicesIndex),
                              AfterStripSlices(done.colorIndicesIndex)))]])

appendTristripsPolyFaces(env) == appendTristripGroups(env, 0, TriangleGroupsStart).out

(***************************************************************************)
(* GeometryImporter::writeFaces: the faces of all primitives, in primitive *)
(* order, between startFace and endFace.  A primitive of a type that is    *)
(* not implemented appends nothing and is reported.                        *)
(***************************************************************************)
\* COLLADAFW::MeshPrimitive::getFaceCount: the faces a primitive holds.
RECURSIVE CountFaces(_, _)
CountFaces(prim, g) ==
    IF g > Len(prim.counts) THEN 0
    ELSE (CASE prim.type \in {"TRIANGLE_FANS", "TRIANGLE_STRIPS"} -> prim.counts[g] - 2
            [] IsPolygonType(prim.type) -> (IF prim.counts[g] >= 0 THEN 1 ELSE 0)
            [] OTHER -> 0)
         + CountFaces(prim, g + 1)

\* COLLADAFW::Mesh::getFacesCount.
RECURSIVE getFacesCountFrom(_, _)
getFacesCountFrom(mesh, i) ==
    IF i > Len(mesh.prims) THEN 0
    ELSE CountFaces(mesh.prims[i], 1) + getFacesCountFrom(mesh, i + 1)

getFacesCount(mesh) == getFacesCountFrom(mesh, 1)

IsImplemented(primitiveType) ==
    primitiveType \in {"TRIANGLE_FANS", "TRIANGLE_STRIPS", "POLYGONS", "POLYLIST",
                       "TRIANGLES"}

appendPrimitivePolyFaces(env) ==
    CASE env.prim.type = "TRIANGLE_FANS" -> appendTrifansPolyFaces(env)
      [] env.prim.type = "TRIANGLE_STRIPS" -> appendTristripsPolyFaces(env)
      [] IsPolygonType(env.prim.type) -> appendPolygonPolyFaces(env)
      [] OTHER -> EmptyDecode

RECURSIVE Flatten(_)
Flatten(seqs) == IF seqs = <<>> THEN <<>> ELSE Head(seqs) \o Flatten(Tail(seqs))

\* The result: whether the face block was written, the polyFaces records
\* appended to it, the output of each primitive's decoder, and the errors.
appendedFaces(mesh, byPrimitive) ==
    [written |-> TRUE,
     faces |-> Flatten([i \in 1..Len(byPrimitive) |-> byPrimitive[i].faces]),
     byPrimitive |-> byPrimitive,
     errors |-> Flatten([i \in 1..Len(mesh.prims) |->
                           IF IsImplemented(mesh.prims[i].type) THEN <<>>
                           ELSE <<"Primitive type not implemented!">>])]

writeFaces(mesh, edgeIndicesMap, oob) ==
    IF getFacesCount(mesh) <= 0
    THEN [written |-> FALSE, faces |-> <<>>, byPrimitive |-> <<>>, errors |-> <<>>]
    ELSE appendedFaces(mesh,
             [i \in 1..Len(mesh.prims) |->
                 appendPrimitivePolyFaces(
                     DecodeEnv(mesh, mesh.prims[i], edgeIndicesMap, oob))])

(***************************************************************************)
(* GeometryImporter::writeEdges: the edge vector in order, every edge with *)
(* the hardness flag edgh = 0; nothing for an empty vector.                *)
(***************************************************************************)
EdgeHardness == 0

\* A variant that writes the edges last to first.
writeEdges_Backwards(edgeIndices) ==
    [k \in 1..Len(edgeIndices) |->
        <<edgeIndices[Len(edgeIndices) + 1 - k][1],
          edgeIndices[Len(edgeIndices) + 1 - k][2], EdgeHardness>>]

writeEdges(edgeIndices) ==
    [k \in 1..Len(edgeIndices) |-> <<edgeIndices[k][1], edgeIndices[k][2], EdgeHardness>>]

(***************************************************************************)
(* GeometryImporter::writeObjectGroups: for a mesh of more than one        *)
(* primitive, for every instance j and primitive i the face range          *)
(* f[first:last] of the primitive, counted by its grouped vertex elements. *)
(***************************************************************************)
\* A variant that makes groups for a single primitive as well.
NeedsGroups_Always(meshPrimitivesCount) == meshPrimitivesCount >= 0

NeedsGroups(meshPrimitivesCount) == ~(meshPrimitivesCount <= 1)

getGroupedVertexElementsCount(prim) == Len(prim.counts)

RECURSIVE objectGroupRanges(_, _, _)
objectGroupRanges(mesh, i, initialFaceIndex) ==
    IF i >= Len(mesh.prims) THEN <<>>
    ELSE LET numFaces == getGroupedVertexElementsCount(At(mesh.prims, i))
         IN  <<[i |-> i, first |-> initialFaceIndex,
                last |-> numFaces - 1 + initialFaceIndex]>>
             \o objectGroupRanges(mesh, i + 1, initialFaceIndex + numFaces)

RECURSIVE writeObjectGroupsFrom(_, _, _)
writeObjectGroupsFrom(mesh, j, numNodeInstances) ==
    IF j >= numNodeInstances THEN <<>>
    ELSE LET ranges == objectGroupRanges(mesh, 0, 0)
         IN  [k \in 1..Len(ranges) |->
                 [j |-> j, i |-> ranges[k].i, first |-> ranges[k].first,
                  last |-> ranges[k].last]]
             \o writeObjectGroupsFrom(mesh, j + 1, numNodeInstances)

writeObjectGroups(mesh, numNodeInstances) ==
    IF NeedsGroups(Len(mesh.prims))
    THEN writeObjectGroupsFrom(mesh, 0, numNodeInstances)
    ELSE <<>>

(***************************************************************************)
(* GeometryImporter::writeVertexPositions: the positions, three values for *)
(* each vertex; a value type that is neither float nor double is reported  *)
(* and nothing is written.                                                 *)
(***************************************************************************)
writeVertexPositions(mesh) ==
    IF IsFloatingType(mesh.positionsType)
    THEN [vrts |-> <<[op |-> "vrts", values |-> mesh.positions]>>, errors |-> <<>>]
    ELSE [vrts |-> <<>>, errors |-> <<"No valid data type for positions">>]

(***************************************************************************)
(* GeometryImporter::setMeshPrimitiveShadingEngines and                    *)
(* setShadingEnginePrimitiveIndex: the index of every primitive is added   *)
(* to the list kept for the pair (geometry id, material id).               *)
(***************************************************************************)
\* A variant that keeps one list for a material, whatever the geometry.
CombinedId_MaterialOnly(geometryId, shadingEngineId) == <<0, shadingEngineId>>

CombinedId(geometryId, shadingEngineId) == <<geometryId, shadingEngineId>>

setShadingEnginePrimitiveIndex(map, geometryId, shadingEngineId, primitiveIndex) ==
    LET combinedId == CombinedId(geometryId, shadingEngineId)
        old == IF combinedId \in DOMAIN map THEN map[combinedId] ELSE <<>>
    IN  [k \in DOMAIN map \cup {combinedId} |->
            IF k = combinedId THEN Append(old, primitiveIndex) ELSE map[k]]

RECURSIVE setMeshPrimitiveShadingEnginesFrom(_, _, _)
setMeshPrimitiveShadingEnginesFrom(map, mesh, primitiveIndex) ==
    IF primitiveIndex >= Len(mesh.prims) THEN map
    ELSE setMeshPrimitiveShadingEnginesFrom(
             setShadingEnginePrimitiveIndex(map, mesh.id,
                 At(mesh.prims, primitiveIndex).material, primitiveIndex),
             mesh, primitiveIndex + 1)

setMeshPrimitiveShadingEngines(map, mesh) ==
    setMeshPrimitiveShadingEnginesFrom(map, mesh, 0)

\* GeometryImporter::getShadingEnginePrimitiveIndices: the list, or none.
getShadingEnginePrimitiveIndices(map, geometryId, shadingEngineId) ==
    IF CombinedId(geometryId, shadingEngineId) \in DOMAIN map
    THEN map[CombinedId(geometryId, shadingEngineId)]
    ELSE <<>>

(***************************************************************************)
(* The importer.  Its state is the record imp:                             *)
(*   mMayaMeshNodesMap    geometry id -> the maya mesh node made for it    *)
(*   mMayaDMMeshNodesMap  the geometry ids with a written mesh node        *)
(*   mGroupIdAssignments  (geometry id, instance index, primitive index)   *)
(*   mShadingEnginePrimitivesMap  (geometry id, material id) -> indices    *)
(*   file                 what was written to the maya file, in order      *)
(*   errors               the errors displayed, in order                   *)
(*   crashed              the process was ended by an assertion or a trap  *)
(* A build is the record b of what the C++ leaves open: the value oob read *)
(* outside a container, whether assertions are compiled in (asserts) and   *)
(* whether the use of a null node ends the process (nullTraps).            *)
(***************************************************************************)
\* The null pointer; transform nodes have ids from 1 on.
NullNode == 0

\* GeometryImporter::findMayaMeshNode: the node kept for the geometry id (the
\* model names the node by the id), or the null pointer.  Geometry ids are
\* 1 and up.
findMayaMeshNode(imp, uniqueId) ==
    IF uniqueId \in DOMAIN imp.mMayaMeshNodesMap THEN uniqueId ELSE NullNode

MapPut(map, key, value) ==
    [k \in DOMAIN map \cup {key} |-> IF k = key THEN value ELSE map[k]]

\* VisualSceneImporter::findMayaTransformNode.
findMayaTransformNode(transformNode) ==
    IF transformNode.resolved THEN transformNode.id ELSE NullNode

(***************************************************************************)
(* GeometryImporter::createMesh: registers the mesh node, then writes the  *)
(* mesh: object groups, positions, the edge list, the faces; at last it    *)
(* fills the map of shading engines.                                       *)
(***************************************************************************)
EdgeRecords(meshId, edgeIndices) ==
    IF Len(edgeIndices) > 0
    THEN <<[op |-> "edge", id |-> meshId, first |-> 0, last |-> Len(edgeIndices) - 1,
            edges |-> writeEdges(edgeIndices)]>>
    ELSE <<>>

FaceRecords(mesh, written) ==
    IF written.written
    THEN <<[op |-> "face", id |-> mesh.id, first |-> 0, last |-> getFacesCount(mesh) - 1,
            faces |-> written.faces, byPrimitive |-> written.byPrimitive]>>
    ELSE <<>>

\* The mesh node registered for the geometry id.
registerMeshNode(imp, uniqueId, mayaTransformNode) ==
    [imp EXCEPT !.mMayaMeshNodesMap =
        MapPut(@, uniqueId, [id |-> uniqueId, parent |-> mayaTransformNode])]

\* The mesh written under a transform node: what createMesh does with the
\* object groups, the positions and the faces it has computed.
writeMesh(imp, mesh, mayaTransformNode, groups, positions, edgeIndices, written) ==
    [imp EXCEPT
        !.mMayaDMMeshNodesMap = @ \cup {mesh.id},
        !.file = @ \o <<[op |-> "createNode", id |-> mesh.id,
                         parent |-> mayaTransformNode]>>
                   \o [k \in 1..Len(groups) |->
                          [op |-> "objectGrpCompList", id |-> mesh.id,
                           j |-> groups[k].j, i |-> groups[k].i,
                           first |-> groups[k].first, last |-> groups[k].last]]
                   \o [k \in 1..Len(positions.vrts) |->
                          [op |-> "vrts", id |-> mesh.id,
                           values |-> positions.vrts[k].values]]
                   \o EdgeRecords(mesh.id, edgeIndices)
                   \o FaceRecords(mesh, written),
        !.errors = @ \o positions.errors \o written.errors,
        !.mShadingEnginePrimitivesMap = setMeshPrimitiveShadingEngines(@, mesh)]

\* The edge table goes to writeEdges and, as the map, to writeFaces.
writeEdgesAndFaces(imp, mesh, mayaTransformNode, groups, positions, table, b) ==
    writeMesh(imp, mesh, mayaTransformNode, groups, positions, table.edgeIndices,
              writeFaces(mesh, table.edgeIndicesMap, b.oob))

createMesh(imp, mesh, mayaTransformNode, numNodeInstances, b) ==
    IF mayaTransformNode = NullNode
    THEN IF b.asserts
         THEN [registerMeshNode(imp, mesh.id, mayaTransformNode) EXCEPT !.crashed = TRUE]
         ELSE [registerMeshNode(imp, mesh.id, mayaTransformNode) EXCEPT
                  !.errors = Append(@, "No transform node! ")]
    ELSE writeEdgesAndFaces(registerMeshNode(imp, mesh.id, mayaTransformNode),
                            mesh, mayaTransformNode,
                            writeObjectGroups(mesh, numNodeInstances),
                            writeVertexPositions(mesh),
                            getEdgeIndices(mesh), b)

(***************************************************************************)
(* GeometryImporter::createGroupNodes: for a mesh of more than one         *)
(* primitive, a group id node and a group assignment for every primitive   *)
(* of the given instance.                                                  *)
(***************************************************************************)
GroupIdAssignment(geometryId, geometryInstanceIndex, primitiveIndex) ==
    [geometryId |-> geometryId, instance |-> geometryInstanceIndex,
     primitive |-> primitiveIndex]

RECURSIVE createGroupNodesFrom(_, _, _, _)
createGroupNodesFrom(imp, mesh, geometryInstanceIndex, primitiveIndex) ==
    IF primitiveIndex >= Len(mesh.prims) THEN imp
    ELSE createGroupNodesFrom(
             [imp EXCEPT
                !.file = Append(@, [op |-> "groupId", id |-> mesh.id,
                                    instance |-> geometryInstanceIndex,
                                    primitive |-> primitiveIndex]),
                !.mGroupIdAssignments = Append(@,
                    GroupIdAssignment(mesh.id, geometryInstanceIndex, primitiveIndex))],
             mesh, geometryInstanceIndex, primitiveIndex + 1)

createGroupNodes(imp, mesh, geometryInstanceIndex) ==
    IF NeedsGroups(Len(mesh.prims))
    THEN createGroupNodesFrom(imp, mesh, geometryInstanceIndex, 0)
    ELSE imp

(***************************************************************************)
(* GeometryImporter::importMesh: the first transform node that uses the    *)
(* geometry gets the mesh itself, every later one a parentShape reference  *)
(* to it; each gets its group nodes.                                       *)
(***************************************************************************)
\* A variant that takes every occurrence for the first.
IsFirstReference_Every(geometryInstanceIndex) == geometryInstanceIndex >= 0

IsFirstReference(geometryInstanceIndex) == geometryInstanceIndex = 0

parentShape(imp, geometryId, mayaTransformNode) ==
    [imp EXCEPT !.file = Append(@, [op |-> "parentShape", id |-> geometryId,
                                    shape |-> findMayaMeshNode(imp, geometryId),
                                    parent |-> mayaTransformNode])]

RECURSIVE importMeshFrom(_, _, _, _, _)
\* The rest of the loop body once the mesh or the reference is written.
importMeshPlaced(placed, mesh, transformNodes, geometryInstanceIndex, b) ==
    IF placed.crashed THEN placed
    ELSE importMeshFrom(createGroupNodes(placed, mesh, geometryInstanceIndex),
                        mesh, transformNodes, geometryInstanceIndex + 1, b)

\* The loop body for the transform node found; its name is read first.
importMeshAt(imp, mesh, transformNodes, geometryInstanceIndex, mayaTransformNode, b) ==
    IF mayaTransformNode = NullNode /\ b.nullTraps
    THEN [imp EXCEPT !.crashed = TRUE]
    ELSE importMeshPlaced(
             IF IsFirstReference(geometryInstanceIndex)
             THEN createMesh(imp, mesh, mayaTransformNode, Len(transformNodes), b)
             ELSE parentShape(imp, mesh.id, mayaTransformNode),
             mesh, transformNodes, geometryInstanceIndex, b)

importMeshFrom(imp, mesh, transformNodes, geometryInstanceIndex, b) ==
    IF geometryInstanceIndex >= Len(transformNodes) \/ imp.crashed THEN imp
    ELSE importMeshAt(imp, mesh, transformNodes, geometryInstanceIndex,
                      findMayaTransformNode(At(transformNodes, geometryInstanceIndex)), b)

importMesh(imp, mesh, transformNodes, b) == importMeshFrom(imp, mesh, transformNodes, 0, b)

(***************************************************************************)
(* GeometryImporter::importGeometry.                                       *)
(***************************************************************************)
\* A variant without the registration check.
AlreadyImported_Never(imp, geometryId) == FALSE

AlreadyImported(imp, geometryId) == findMayaMeshNode(imp, geometryId) # NullNode

\* A null pointer given for the geometry is the geometry of type "NULL".
IsNullGeometry(geometry) == geometry.type = "NULL"

importGeometry(imp, geometry, transformNodes, b) ==
    IF IsNullGeometry(geometry) THEN imp
    ELSE IF AlreadyImported(imp, geometry.id) THEN imp
    ELSE CASE geometry.type = "CONVEX_MESH" ->
                [imp EXCEPT !.errors = Append(@, "Import of convex_mesh not supported!")]
           [] geometry.type = "SPLINE" ->
                [imp EXCEPT !.errors = Append(@, "Import of spline not supported!")]
           [] geometry.type = "MESH" -> importMesh(imp, geometry, transformNodes, b)
           [] OTHER -> imp

(***************************************************************************)
(* The state.                                                              *)
(*   doc    the document being imported: for every geometry id the         *)
(*          geometry and the transform nodes of the scene that use it      *)
(*   build  what the C++ leaves open, fixed for a run of the program       *)
(*   calls  the geometry ids importGeometry was called with, in order      *)
(*          (history)                                                      *)
(*   args, result  the arguments of a function applied on its own and the   *)
(*          results of its applications, in order (the specifications of   *)
(*          single functions)                                              *)
(* and the importer's members, see above.                                  *)
(***************************************************************************)
VARIABLES doc, build, calls, mMayaMeshNodesMap, mMayaDMMeshNodesMap, mGroupIdAssignments,
          mShadingEnginePrimitivesMap, file, errors, crashed, args, result

vars == <<doc, build, calls, mMayaMeshNodesMap, mMayaDMMeshNodesMap, mGroupIdAssignments,
          mShadingEnginePrimitivesMap, file, errors, crashed, args, result>>

importerVars == <<mMayaMeshNodesMap, mMayaDMMeshNodesMap, mGroupIdAssignments,
                  mShadingEnginePrimitivesMap, file, errors, crashed>>

Imp == [mMayaMeshNodesMap |-> mMayaMeshNodesMap,
        mMayaDMMeshNodesMap |-> mMayaDMMeshNodesMap,
        mGroupIdAssignments |-> mGroupIdAssignments,
        mShadingEnginePrimitivesMap |-> mShadingEnginePrimitivesMap,
        file |-> file, errors |-> errors, crashed |-> crashed]

\* GeometryImporter::GeometryImporter: nothing imported yet.
NewImporter ==
    /\ mMayaMeshNodesMap = [k \in {} |-> 0]
    /\ mMayaDMMeshNodesMap = {}
    /\ mGroupIdAssignments = <<>>
    /\ mShadingEnginePrimitivesMap = [k \in {} |-> 0]
    /\ file = <<>>
    /\ errors = <<>>
    /\ crashed = FALSE

NoFunction == /\ args = <<>>
              /\ result = <<>>

(***************************************************************************)
(* The inputs.                                                             *)
(***************************************************************************)
\* No more than MaxCalls calls of importGeometry are followed.
MaxCalls == 2

\* The values a read outside a container may yield.
OobValues == {-1, MaxVertex + 1}

Builds == [oob : OobValues, asserts : BOOLEAN, nullTraps : BOOLEAN]

\* A build for the runs in which nothing is left open.
AnyBuild == [oob |-> -1, asserts |-> FALSE, nullTraps |-> TRUE]

\* The position of vertex v: the corners of the unit cube in index order.
Position(v) == <<v % 2, (v \div 2) % 2, v \div 4>>

Positions == [v \in VertexIds |-> Position(v)]

\* The sequences of n..m group sizes that take len stream entries.
RECURSIVE Compositions(_)
Compositions(len) ==
    IF len < TriangleVertexCount THEN {}
    ELSE {<<len>>} \cup
         UNION {{<<n>> \o c : c \in Compositions(len - n)} :
                   n \in TriangleVertexCount..(len - TriangleVertexCount)}

\* The same with holes: any group but the first may be a hole.
HoleVariants(counts) ==
    {[g \in 1..Len(counts) |-> IF g \in holes THEN -counts[g] ELSE counts[g]] :
        holes \in SUBSET (2..Len(counts))}

\* A quad with a triangular hole.
QuadWithHole == <<TriangleVertexCount + 1, -TriangleVertexCount>>

\* A triangle with a hole of four edges.
TriangleWithQuadHole == <<TriangleVertexCount, -(TriangleVertexCount + 1)>>

\* A face of four edges followed by a face of three edges.
QuadThenTriangle == <<TriangleVertexCount + 1, TriangleVertexCount>>

\* A fan or strip of two triangles followed by one of a single triangle.
TwoThenOne == <<TriangleVertexCount + 1, TriangleVertexCount>>

\* Group sizes that are looked at whatever the stream bound is.
ExampleCounts(type) ==
    CASE type = "POLYGONS" -> {QuadWithHole, TriangleWithQuadHole, QuadThenTriangle}
      [] type = "POLYLIST" -> {QuadThenTriangle, QuadWithHole}
      [] type \in {"TRIANGLE_FANS", "TRIANGLE_STRIPS"} -> {TwoThenOne}
      [] OTHER -> {}

GroupCounts(type, len) ==
    CASE type = "POLYGONS" -> UNION {HoleVariants(c) : c \in Compositions(len)}
      [] type = "TRIANGLES" ->
            {c \in Compositions(len) : \A g \in 1..Len(c) : c[g] = TriangleVertexCount}
      [] OTHER -> Compositions(len)

Primitive(type, counts, positionIndices, uv, color, material) ==
    [type |-> type, counts |-> counts, positionIndices |-> positionIndices,
     uv |-> uv, color |-> color, material |-> material]

\* The sizes of the groups of a primitive of a type: those that take up to
\* MaxStreamLen stream entries, and the example sizes.
AllGroupCounts(type) ==
    UNION {GroupCounts(type, len) : len \in TriangleVertexCount..MaxStreamLen}
    \cup ExampleCounts(type)

\* A primitive without UV or color channels.
BarePrimitive(type, counts, positionIndices) ==
    Primitive(type, counts, positionIndices, <<>>, <<>>, 1)

Mesh(id, prims) ==
    [id |-> id, type |-> "MESH", prims |-> prims, positions |-> Positions,
     positionsType |-> "FLOAT"]

TransformNode(id) == [id |-> id, resolved |-> TRUE]

(***************************************************************************)
(* importGeometry as a step of the importer.                               *)
(***************************************************************************)
ImportGeometry(g) ==
    /\ ~crashed
    /\ Len(calls) < MaxCalls
    /\ \E next \in {importGeometry(Imp, doc[g].geometry, doc[g].transformNodes, build)} :
              /\ mMayaMeshNodesMap' = next.mMayaMeshNodesMap
              /\ mMayaDMMeshNodesMap' = next.mMayaDMMeshNodesMap
              /\ mGroupIdAssignments' = next.mGroupIdAssignments
              /\ mShadingEnginePrimitivesMap' = next.mShadingEnginePrimitivesMap
              /\ file' = next.file
              /\ errors' = next.errors
              /\ crashed' = next.crashed
    /\ calls' = Append(calls, g)
    /\ UNCHANGED <<doc, build, args, result>>

Next == \E g \in DOMAIN doc : ImportGeometry(g)

(***************************************************************************)
(* SpecDecode: one mesh of one primitive, of any implemented type and with *)
(* any index stream, or a mesh without primitives or with one primitive of *)
(* a type that is not implemented, used by one transform node, is imported *)
(* once.                                                                   *)
(***************************************************************************)
DecodeTypes == {"TRIANGLE_FANS", "TRIANGLE_STRIPS", "POLYGONS", "POLYLIST", "TRIANGLES"}

\* A primitive of a type that is not implemented, without any line.
NoLines == BarePrimitive("LINES", <<>>, <<>>)

InitDecode ==
    /\ \/ \E type \in DecodeTypes : \E counts \in AllGroupCounts(type) :
             \E positionIndices \in [1..SumAbs(counts) -> VertexIds] :
                 doc = [g \in {1} |->
                           [geometry |->
                                Mesh(1, <<BarePrimitive(type, counts, positionIndices)>>),
                            transformNodes |-> <<TransformNode(1)>>]]
       \/ \E prims \in {<<>>, <<NoLines>>} :
             doc = [g \in {1} |-> [geometry |-> Mesh(1, prims),
                                    transformNodes |-> <<TransformNode(1)>>]]
    /\ build = AnyBuild
    /\ calls = <<>>
    /\ NewImporter
    /\ NoFunction

ImportOnce(g) == calls = <<>> /\ ImportGeometry(g)

NextDecode == \E g \in DOMAIN doc : ImportOnce(g)

SpecDecode == InitDecode /\ [][NextDecode]_vars

(***************************************************************************)
(* Spec: a scene of geometries of every kind, each used by some transform  *)
(* nodes, imported by calls of importGeometry in any order, repeats        *)
(* included.                                                               *)
(***************************************************************************)
\* No geometry is used by more than MaxInstances transform nodes.
MaxInstances == 3

GeometryIds == 1..2

\* An index list that gives stream entry k the index initialIndex + k - 1.
IndexList(set, initialIndex, len) ==
    [set |-> set, initialIndex |-> initialIndex,
     indices |-> [k \in 1..len |-> initialIndex + k - 1]]

SceneTriangle == Primitive("TRIANGLES", <<3>>, <<0, 1, 2>>, <<>>, <<>>, 1)

SceneFan ==
    Primitive("TRIANGLE_FANS", <<4>>, <<0, 1, 2, 1>>, <<IndexList("map1", 0, 4)>>, <<>>, 1)

SceneQuadWithHole ==
    Primitive("POLYGONS", QuadWithHole, <<0, 1, 2, 1, 0, 2, 1>>,
              <<IndexList("map1", 4, 7)>>, <<IndexList("colorSet1", 0, 7)>>, 2)

SceneStrips ==
    Primitive("TRIANGLE_STRIPS", <<3, 3>>, <<0, 1, 2, 2, 1, 0>>,
              <<IndexList("map1", 0, 6)>>, <<>>, 1)

ScenePolylist == Primitive("POLYLIST", <<3, 4>>, <<0, 1, 2, 2, 1, 0, 1>>, <<>>, <<>>, 2)

SceneLines == Primitive("LINES", <<2>>, <<0, 1>>, <<>>, <<>>, 3)

\* A triangle with the material of the polylist.
SceneSecondTriangle == Primitive("TRIANGLES", <<3>>, <<2, 1, 0>>, <<>>, <<>>, 2)

SceneGeometries(id) ==
    {Mesh(id, <<SceneTriangle>>),
     Mesh(id, <<ScenePolylist, SceneLines, SceneSecondTriangle>>),
     Mesh(id, <<SceneFan, SceneQuadWithHole>>),
     Mesh(id, <<SceneStrips, ScenePolylist, SceneLines>>),
     [id |-> id, type |-> "CONVEX_MESH"],
     [id |-> id, type |-> "SPLINE"],
     [id |-> id, type |-> "CONTROLLER"],
     [id |-> id, type |-> "NULL"]}

\* The transform nodes that use geometry id: n of them, each resolved.
SceneTransformNodes(id, n) == [j \in 1..n |-> TransformNode(10 * id + j)]

Init ==
    /\ doc \in [GeometryIds ->
                  UNION {{[geometry |-> geometry,
                           transformNodes |-> SceneTransformNodes(geometry.id, n)] :
                             n \in 0..MaxInstances} :
                         geometry \in UNION {SceneGeometries(id) : id \in GeometryIds}}]
    /\ \A g \in GeometryIds : doc[g].geometry.id = g
    /\ build \in {b \in Builds : ~b.asserts /\ b.nullTraps}
    /\ calls = <<>>
    /\ NewImporter
    /\ NoFunction

Spec == Init /\ [][Next]_vars

(***************************************************************************)
(* SpecOrient: changeHoleOrientation applied to any three points of a      *)
(* polygon and any three points of a hole.                                 *)
(***************************************************************************)
\* The points are the positions of the vertices 0..MaxPoint.
MaxPoint == 4

OrientPoints == {Position(v) : v \in 0..MaxPoint}

NoImport ==
    /\ doc = <<>>
    /\ build = AnyBuild
    /\ calls = <<>>
    /\ NewImporter

InitOrient ==
    /\ NoImport
    /\ args \in [polygonPoints : [1..3 -> OrientPoints], holePoints : [1..3 -> OrientPoints]]
    /\ result = <<>>

CallChangeHoleOrientation ==
    /\ result = <<>>
    /\ result' = <<changeHoleOrientation(args.polygonPoints, args.holePoints)>>
    /\ UNCHANGED <<doc, build, calls, importerVars, args>>

NextOrient == CallChangeHoleOrientation

SpecOrient == InitOrient /\ [][NextOrient]_vars

(***************************************************************************)
(* SpecFlip: changePolyFaceHoleOrientation applied, up to MaxFlips times   *)
(* in a row, to a polyFaces record with any hole references.               *)
(***************************************************************************)
MaxFlips == 2

\* The edge references of a mesh of up to MaxVertex + 1 edges.
ReferenceValues == (-(MaxVertex + 1))..MaxVertex

HoleSizes == TriangleVertexCount..(TriangleVertexCount + 1)

FlipFaceEdges == {<<>>, <<0, -2, 1>>}

FlipChannels(name) == {<<>>, <<[set |-> name, ids |-> <<0, 1, 2>>]>>}

InitFlip ==
    /\ NoImport
    /\ args \in [f : FlipFaceEdges,
                  h : UNION {[1..m -> ReferenceValues] : m \in HoleSizes},
                  mu : FlipChannels("map1"),
                  mc : FlipChannels("colorSet1")]
    /\ result = <<>>

CallChangePolyFaceHoleOrientation ==
    /\ Len(result) < MaxFlips
    /\ result' = Append(result, changePolyFaceHoleOrientation(
                                    IF result = <<>> THEN args ELSE result[Len(result)]))
    /\ UNCHANGED <<doc, build, calls, importerVars, args>>

NextFlip == CallChangePolyFaceHoleOrientation

SpecFlip == InitFlip /\ [][NextFlip]_vars

(***************************************************************************)
(* SpecChannels: one mesh of one primitive of any implemented type, with   *)
(* up to two UV index lists and up to one color index list, is imported    *)
(* once.  Every index list is as long as the position index stream.        *)
(***************************************************************************)
\* The initial index of an index list is in 0..MaxInitialIndex.
MaxInitialIndex == 1

\* An index list whose raw indices ascend or descend from the initial index
\* on.
IndexStream(set, initialIndex, order, len) ==
    [set |-> set, initialIndex |-> initialIndex,
     indices |-> [k \in 1..len |->
                     initialIndex + (IF order = "ascending" THEN k - 1 ELSE len - k)]]

\* The choices of one further index list, each a function of the stream length.
IndexListChoices == (0..MaxInitialIndex) \X {"ascending", "descending"}

UVChoices ==
    {<<>>} \cup {<<c>> : c \in IndexListChoices}
           \cup {<<<<0, "ascending">>, c>> : c \in IndexListChoices}

ColorChoices == {<<>>} \cup {<<c>> : c \in IndexListChoices}

IndexLists(name, choices, len) ==
    [i \in 1..Len(choices) |-> IndexStream(<<name, i>>, choices[i][1], choices[i][2], len)]

\* The position index stream 0, 1, .., MaxVertex, 0, 1, ..
CyclicPositionIndices(len) == [k \in 1..len |-> (k - 1) % (MaxVertex + 1)]

ChannelPrimitive(type, counts, uv, color) ==
    Primitive(type, counts, CyclicPositionIndices(SumAbs(counts)),
              IndexLists("map", uv, SumAbs(counts)),
              IndexLists("colorSet", color, SumAbs(counts)), 1)

InitChannels ==
    /\ \E type \in DecodeTypes : \E counts \in AllGroupCounts(type) :
          \E uv \in UVChoices : \E color \in ColorChoices :
              doc = [g \in {1} |->
                        [geometry |-> Mesh(1, <<ChannelPrimitive(type, counts, uv, color)>>),
                         transformNodes |-> <<TransformNode(1)>>]]
    /\ build \in {b \in Builds : ~b.asserts /\ b.nullTraps}
    /\ calls = <<>>
    /\ NewImporter
    /\ NoFunction

NextChannels == \E g \in DOMAIN doc : ImportOnce(g)

SpecChannels == InitChannels /\ [][NextChannels]_vars

(***************************************************************************)
(* SpecLookup: writeFaces applied to one mesh of one primitive and an edge *)
(* map that is the mesh's own or lacks one of its edges, in a build with   *)
(* or without assertions.  getEdgeIndex reports an edge it does not find   *)
(* and asserts; past the assertion it reads through the end iterator.      *)
(***************************************************************************)
\* The edge map without the entry of one edge.
WithoutEdge(edgeIndicesMap, edge) ==
    [e \in DOMAIN edgeIndicesMap \ {edge} |-> edgeIndicesMap[e]]

LookupTables(mesh) ==
    {getEdgeIndices(mesh).edgeIndicesMap}
    \cup {WithoutEdge(getEdgeIndices(mesh).edgeIndicesMap, edge) :
             edge \in DOMAIN getEdgeIndices(mesh).edgeIndicesMap}

\* The look-ups of one polyFaces record that find no edge.
MissedAt(note, edgeIndicesMap) ==
    {k \in DOMAIN note.pairs :
        Edge(note.pairs[k][1], note.pairs[k][2]).v \notin DOMAIN edgeIndicesMap}

\* How many of the first n records have a look-up that finds no edge.
RECURSIVE MissCount(_, _, _)
MissCount(notes, n, edgeIndicesMap) ==
    IF n = 0 THEN 0
    ELSE MissCount(notes, n - 1, edgeIndicesMap)
         + Cardinality(MissedAt(notes[n], edgeIndicesMap))

\* The first record with a look-up that finds no edge; 0 without one.
FirstMiss(notes, edgeIndicesMap) ==
    IF \A n \in DOMAIN notes : MissedAt(notes[n], edgeIndicesMap) = {} THEN 0
    ELSE CHOOSE n \in DOMAIN notes :
             /\ MissedAt(notes[n], edgeIndicesMap) # {}
             /\ \A m \in 1..(n - 1) : MissedAt(notes[m], edgeIndicesMap) = {}

EdgeNotFound == "Edge not found: "

\* The faces written and the errors displayed, given what the decoders
\* append when no assertion stops them: with assertions the process ends in
\* the first record that misses, without them every record is written.
facesWithLookups(written, notes, first, misses, b) ==
    IF first > 0 /\ b.asserts
    THEN [faces |-> SubSeq(written.faces, 1, first - 1),
          errors |-> <<EdgeNotFound>>, crashed |-> TRUE]
    ELSE [faces |-> written.faces,
          errors |-> [k \in 1..misses |-> EdgeNotFound] \o written.errors,
          crashed |-> FALSE]

notesOf(written) == Flatten([i \in 1..Len(written.byPrimitive) |->
                                written.byPrimitive[i].notes])

facesOfNotes(written, notes, edgeIndicesMap, b) ==
    facesWithLookups(written, notes, FirstMiss(notes, edgeIndicesMap),
                     MissCount(notes, Len(notes), edgeIndicesMap), b)

facesWritten(written, edgeIndicesMap, b) ==
    facesOfNotes(written, notesOf(written), edgeIndicesMap, b)

writeFacesLookingUp(mesh, edgeIndicesMap, b) ==
    facesWritten(writeFaces(mesh, edgeIndicesMap, b.oob), edgeIndicesMap, b)

LookupMeshes ==
    UNION {{Mesh(1, <<BarePrimitive(type, counts,
                                    CyclicPositionIndices(SumAbs(counts)))>>) :
               counts \in AllGroupCounts(type)} : type \in DecodeTypes}

InitLookup ==
    /\ doc = <<>>
    /\ calls = <<>>
    /\ NewImporter
    /\ build \in {b \in Builds : b.nullTraps}
    /\ \E mesh \in LookupMeshes : \E edgeIndicesMap \in LookupTables(mesh) :
          args = [mesh |-> mesh, edgeIndicesMap |-> edgeIndicesMap]
    /\ result = <<>>

CallWriteFaces ==
    /\ result = <<>>
    /\ result' = <<writeFacesLookingUp(args.mesh, args.edgeIndicesMap, build)>>
    /\ UNCHANGED <<doc, build, calls, importerVars, args>>

NextLookup == CallWriteFaces

SpecLookup == InitLookup /\ [][NextLookup]_vars

(***************************************************************************)
(* SpecUnresolved: one mesh, with positions of any value type, used by up  *)
(* to MaxInstances transform nodes, any of which the visual scene importer *)
(* may not find, imported in any build.                                    *)
(***************************************************************************)
\* COLLADAFW::MeshVertexData::DataType: float, double and one more.
PositionTypes == {"FLOAT", "DOUBLE", "UNKNOWN"}

\* The mesh with positions of the given value type.
TypedMesh(mesh, type) == [mesh EXCEPT !.positionsType = type]

\* The transform nodes that use geometry id; found tells which are found.
OccurrenceNodes(id, found) ==
    [j \in 1..Len(found) |-> [id |-> 10 * id + j, resolved |-> found[j]]]

InitUnresolved ==
    /\ \E geometry \in {Mesh(1, <<SceneTriangle>>), Mesh(1, <<SceneFan, SceneQuadWithHole>>)} :
          \E type \in PositionTypes :
          \E n \in 1..MaxInstances : \E found \in [1..n -> BOOLEAN] :
              doc = [g \in {1} |-> [geometry |-> TypedMesh(geometry, type),
                                     transformNodes |-> OccurrenceNodes(1, found)]]
    /\ build \in Builds
    /\ calls = <<>>
    /\ NewImporter
    /\ NoFunction

NextUnresolved == \E g \in DOMAIN doc : ImportGeometry(g)

SpecUnresolved == InitUnresolved /\ [][NextUnresolved]_vars

(***************************************************************************)
(* SpecCreate: createMesh from the edge table on, statement by statement.  *)
(* The mesh node is registered and its object groups and positions are     *)
(* written; result holds createMesh's place (pc), the loop counter i, the  *)
(* edge table and the faces decoded so far.  getEdgeIndices takes the      *)
(* primitives one by one, then writeEdges writes the list, writeFaces      *)
(* decodes the primitives one by one and closes the face block, and        *)
(* setMeshPrimitiveShadingEngines fills the map.                           *)
(***************************************************************************)
\* A triangle that comes back on its first edge: it has but two of the edges
\* of the triangle 0, 1, 2.
SceneSliver == BarePrimitive("TRIANGLES", <<3>>, <<0, 1, 0>>)

CreateMeshes ==
    {Mesh(1, prims) : prims \in {<<>>, <<NoLines>>, <<SceneTriangle>>,
                                 <<ScenePolylist, SceneLines, SceneSecondTriangle>>,
                                 <<SceneFan, SceneQuadWithHole>>,
                                 <<SceneStrips, ScenePolylist, SceneLines>>,
                                 <<SceneSliver, SceneTriangle>>}}
    \cup LookupMeshes

\* createMesh at a statement, with its locals.
Frame(pc, i, table, byPrimitive) ==
    [pc |-> pc, i |-> i, table |-> table, byPrimitive |-> byPrimitive]

InitCreate ==
    /\ doc = <<>>
    /\ build = AnyBuild
    /\ calls = <<>>
    /\ \E mesh \in CreateMeshes :
          /\ args = [mesh |-> mesh, mayaTransformNode |-> TransformNode(1).id]
          /\ mMayaMeshNodesMap = MapPut([k \in {} |-> 0], mesh.id,
                                        [id |-> mesh.id, parent |-> TransformNode(1).id])
          /\ mMayaDMMeshNodesMap = {mesh.id}
          /\ file = <<[op |-> "createNode", id |-> mesh.id,
                       parent |-> TransformNode(1).id]>>
                    \o [k \in 1..Len(writeObjectGroups(mesh, 1)) |->
                           [op |-> "objectGrpCompList", id |-> mesh.id,
                            j |-> writeObjectGroups(mesh, 1)[k].j,
                            i |-> writeObjectGroups(mesh, 1)[k].i,
                            first |-> writeObjectGroups(mesh, 1)[k].first,
                            last |-> writeObjectGroups(mesh, 1)[k].last]]
                    \o [k \in 1..Len(writeVertexPositions(mesh).vrts) |->
                           [op |-> "vrts", id |-> mesh.id,
                            values |-> writeVertexPositions(mesh).vrts[k].values]]
          /\ errors = writeVertexPositions(mesh).errors
    /\ mGroupIdAssignments = <<>>
    /\ mShadingEnginePrimitivesMap = [k \in {} |-> 0]
    /\ crashed = FALSE
    /\ result = Frame("getEdgeIndices", 0, EmptyEdgeTable, <<>>)

\* A variant that takes the table for complete after the first primitive.
TableComplete_AfterFirst(mesh, i) == i >= 1

\* getEdgeIndices has taken every primitive of the mesh.
TableComplete(mesh, i) == i >= Len(mesh.prims)

\* getEdgeIndices: the loop body for primitive i.
StepAppendEdgeIndices ==
    /\ result.pc = "getEdgeIndices"
    /\ result.i < Len(args.mesh.prims)
    /\ result' = [result EXCEPT
                     !.table = appendEdgeIndices(At(args.mesh.prims, result.i), @),
                     !.i = @ + 1]
    /\ UNCHANGED <<doc, build, calls, importerVars, args>>

\* writeEdges, called with the vector getEdgeIndices has filled.
StepWriteEdges ==
    /\ result.pc = "getEdgeIndices"
    /\ TableComplete(args.mesh, result.i)
    /\ file' = file \o EdgeRecords(args.mesh.id, result.table.edgeIndices)
    /\ result' = [result EXCEPT !.pc = "writeFaces", !.i = 0]
    /\ UNCHANGED <<doc, build, calls, mMayaMeshNodesMap, mMayaDMMeshNodesMap,
                   mGroupIdAssignments, mShadingEnginePrimitivesMap, errors, crashed,
                   args>>

\* writeFaces: the loop body for primitive i, which reads the map.
StepAppendPolyFaces ==
    /\ result.pc = "writeFaces"
    /\ getFacesCount(args.mesh) > 0
    /\ result.i < Len(args.mesh.prims)
    /\ result' = [result EXCEPT
                     !.byPrimitive = Append(@, appendPrimitivePolyFaces(
                         DecodeEnv(args.mesh, At(args.mesh.prims, result.i),
                                   result.table.edgeIndicesMap, build.oob))),
                     !.i = @ + 1]
    /\ UNCHANGED <<doc, build, calls, importerVars, args>>

\* writeFaces returns: at once for a mesh without faces, else behind the
\* last primitive, where the face block is closed.
StepEndFaces ==
    /\ result.pc = "writeFaces"
    /\ \/ /\ getFacesCount(args.mesh) <= 0
          /\ UNCHANGED <<file, errors>>
       \/ /\ getFacesCount(args.mesh) > 0
          /\ result.i >= Len(args.mesh.prims)
          /\ file' = file \o FaceRecords(args.mesh,
                                         appendedFaces(args.mesh, result.byPrimitive))
          /\ errors' = errors \o appendedFaces(args.mesh, result.byPrimitive).errors
    /\ result' = [result EXCEPT !.pc = "setMeshPrimitiveShadingEngines"]
    /\ UNCHANGED <<doc, build, calls, mMayaMeshNodesMap, mMayaDMMeshNodesMap,
                   mGroupIdAssignments, mShadingEnginePrimitivesMap, crashed, args>>

StepSetShadingEngines ==
    /\ result.pc = "setMeshPrimitiveShadingEngines"
    /\ mShadingEnginePrimitivesMap' =
           setMeshPrimitiveShadingEngines(mShadingEnginePrimitivesMap, args.mesh)
    /\ result' = [result EXCEPT !.pc = "done"]
    /\ UNCHANGED <<doc, build, calls, mMayaMeshNodesMap, mMayaDMMeshNodesMap,
                   mGroupIdAssignments, file, errors, crashed, args>>

NextCreate ==
    \/ StepAppendEdgeIndices
    \/ StepWriteEdges
    \/ StepAppendPolyFaces
    \/ StepEndFaces
    \/ StepSetShadingEngines

SpecCreate == InitCreate /\ [][NextCreate]_vars

(***************************************************************************)
(* SpecCounts: the fan and strip decoders applied to one primitive whose   *)
(* groups have any vertex count from 0 on, with the mesh's own edge map.   *)
(***************************************************************************)
\* The vertex counts of the groups are 0..MaxVertexCount.
MaxVertexCount == 4

\* The largest vertex count whose edge count fits an unsigned int, and the
\* vertex counts the edge count is computed for.
LargestExactCount == (HalfRange \div 3) * HalfRange + HalfRange \div 3 + 2
WideVertexCounts == {0, 1, 2, LargestExactCount, LargestExactCount + 1}

CountedGroups == UNION {[1..n -> 0..MaxVertexCount] : n \in 1..2}

CountedMeshes ==
    UNION {{Mesh(1, <<BarePrimitive(type, counts,
                                    CyclicPositionIndices(SumAbs(counts)))>>) :
               counts \in CountedGroups} : type \in {"TRIANGLE_FANS", "TRIANGLE_STRIPS"}}

InitCounts ==
    /\ doc = <<>>
    /\ calls = <<>>
    /\ NewImporter
    /\ build \in {b \in Builds : b.nullTraps}
    /\ \E mesh \in CountedMeshes : \E vertexCount \in WideVertexCounts :
          args = [mesh |-> mesh, vertexCount |-> vertexCount]
    /\ result = <<>>

\* appendTrifansPolyFaces or appendTristripsPolyFaces, as writeFaces calls it,
\* and the edge count the decoders compute for a group of args.vertexCount.
CallAppendPolyFaces ==
    /\ result = <<>>
    /\ result' = <<appendPrimitivePolyFaces(
                       DecodeEnv(args.mesh, args.mesh.prims[1],
                                 getEdgeIndices(args.mesh).edgeIndicesMap, build.oob)),
                   TriangleGroupEdges(args.vertexCount)>>
    /\ UNCHANGED <<doc, build, calls, importerVars, args>>

NextCounts == CallAppendPolyFaces

SpecCounts == InitCounts /\ [][NextCounts]_vars

(***************************************************************************)
(* What the properties below read from the state.                          *)
(***************************************************************************)
Called(g) == \E k \in 1..Len(calls) : calls[k] = g

IsMeshDoc(g) == doc[g].geometry.type = "MESH"

\* The records of the file written for geometry g with one of the ops.
RecordsOf(g, ops) == SelectSeq(file, LAMBDA r : r.id = g /\ r.op \in ops)

\* The places in the file of the records written for g with one of the ops.
PlacesOf(g, ops) == {k \in 1..Len(file) : file[k].id = g /\ file[k].op \in ops}

FullGeometryOps == {"createNode", "objectGrpCompList", "vrts", "edge", "face"}

(***************************************************************************)
(* C1: a mesh used by n >= 1 transform nodes has, once imported, its full  *)
(* geometry in the file exactly once, created under the first node, and    *)
(* after it exactly n-1 parentShape references to that shape, one for each *)
(* later node in their order; no vertex, edge or face record comes after   *)
(* the first reference, so nothing is computed again for a later node.     *)
(***************************************************************************)
C1_Formula ==
    \A g \in DOMAIN doc :
        (Called(g) /\ IsMeshDoc(g) /\ Len(doc[g].transformNodes) >= 1) =>
            LET nodes == doc[g].transformNodes
                created == RecordsOf(g, {"createNode"})
                refs == RecordsOf(g, {"parentShape"})
            IN  /\ Len(created) = 1
                /\ created[1].parent = nodes[1].id
                /\ Len(RecordsOf(g, {"edge"})) = 1
                /\ Len(RecordsOf(g, {"face"})) = 1
                /\ Len(refs) = Len(nodes) - 1
                /\ \A k \in 1..Len(refs) :
                       refs[k].parent = nodes[k + 1].id /\ refs[k].shape = g
                /\ \A i \in PlacesOf(g, FullGeometryOps) :
                       \A j \in PlacesOf(g, {"parentShape"}) : i < j

\* A mesh used by three transform nodes has been imported.
C1_Witness ==
    \E g \in DOMAIN doc :
        /\ Called(g) /\ IsMeshDoc(g)
        /\ Len(doc[g].transformNodes) = 3
        /\ Len(RecordsOf(g, {"parentShape"})) = 2

(***************************************************************************)
(* C2: whatever calls of importGeometry are made, the file never holds the *)
(* full geometry of a mesh id twice, and a call for an id that is already  *)
(* registered writes nothing and changes nothing of the importer.          *)
(***************************************************************************)
WrittenAtMostOnce ==
    \A g \in DOMAIN doc :
        \A op \in {"createNode", "edge", "face"} : Len(RecordsOf(g, {op})) <= 1

RepeatedCallIsNoOp ==
    \A g \in DOMAIN doc :
        (calls' = Append(calls, g) /\ g \in DOMAIN mMayaMeshNodesMap) =>
            UNCHANGED importerVars

C2_Formula == [][WrittenAtMostOnce' /\ RepeatedCallIsNoOp]_vars

\* importGeometry has been called twice for the same, written mesh.
C2_Witness ==
    \E g \in DOMAIN doc :
        /\ calls = <<g, g>>
        /\ g \in DOMAIN mMayaMeshNodesMap
        /\ Len(RecordsOf(g, {"createNode"})) = 1

(***************************************************************************)
(* The decoded primitives: every primitive of a mesh whose face block is   *)
(* in the file, with the output of its decoder and the mesh's edge map.    *)
(***************************************************************************)
MeshIds == {g \in DOMAIN doc : IsMeshDoc(g)}

DecodedPrimitives ==
    UNION {UNION {{[mesh |-> doc[g].geometry,
                    prim |-> doc[g].geometry.prims[i],
                    out |-> file[k].byPrimitive[i],
                    edgeIndicesMap |-> getEdgeIndices(doc[g].geometry).edgeIndicesMap] :
                      i \in 1..Len(doc[g].geometry.prims)} :
                  k \in PlacesOf(g, {"face"})} :
           g \in MeshIds}

Decoded(types) == {d \in DecodedPrimitives : d.prim.type \in types}

\* The edge index a signed reference stands for.
DecodeReference(r) == IF r >= 0 THEN r ELSE -(r + 1)

\* The signed reference of the directed edge from a to b.
Resolve(edgeIndicesMap, a, b) == getEdgeIndex(Edge(a, b), edgeIndicesMap, build.oob).edgeIndex

Resolved(edgeIndicesMap, pairs) ==
    [j \in 1..Len(pairs) |-> Resolve(edgeIndicesMap, pairs[j][1], pairs[j][2])]

\* The number of edges in the edge list written for mesh g.
EdgeCount(g) ==
    LET written == RecordsOf(g, {"edge"})
    IN  IF written = <<>> THEN 0 ELSE Len(written[1].edges)

(***************************************************************************)
(* C3: in every written face block, every signed edge reference of a face  *)
(* or of a hole, the turned holes included, stands for an edge index in    *)
(* 0..N-1, where N is the number of edges of the mesh's edge list, each of *)
(* which is another undirected pair of position indices.                   *)
(***************************************************************************)
C3_Formula ==
    \A g \in MeshIds : \A k \in PlacesOf(g, {"face"}) :
        LET N == EdgeCount(g)
            edges == IF N = 0 THEN <<>> ELSE RecordsOf(g, {"edge"})[1].edges
        IN  /\ Cardinality({{edges[e][1], edges[e][2]} : e \in 1..N}) = N
            /\ \A n \in 1..Len(file[k].faces) :
                   /\ \A j \in 1..Len(file[k].faces[n].f) :
                          DecodeReference(file[k].faces[n].f[j]) \in 0..(N - 1)
                   /\ \A j \in 1..Len(file[k].faces[n].h) :
                          DecodeReference(file[k].faces[n].h[j]) \in 0..(N - 1)

\* A face block holds a turned hole with a reversed reference and a face
\* with one.
C3_Witness ==
    \E d \in DecodedPrimitives : \E n, m \in 1..Len(d.out.faces) :
        /\ d.out.notes[n].changed
        /\ \E j \in 1..Len(d.out.faces[n].h) : d.out.faces[n].h[j] < 0
        /\ \E j \in 1..Len(d.out.faces[m].f) : d.out.faces[m].f[j] < 0

(***************************************************************************)
(* C4: for position indices a and b whose undirected edge is in the edge   *)
(* map, the directed edges (a, b) and (b, a) resolve to the same edge      *)
(* index with complementary direction: one reference is i, the other       *)
(* -(i+1).  C4_Original is the statement for all a and b; C4_Formula is it *)
(* for a # b.                                                              *)
(***************************************************************************)
Complementary(edgeIndicesMap, a, b) ==
    \E i \in 0..(Cardinality(DOMAIN edgeIndicesMap) - 1) :
        {Resolve(edgeIndicesMap, a, b), Resolve(edgeIndicesMap, b, a)} = {i, -(i + 1)}

C4_Original ==
    \A d \in DecodedPrimitives : \A a, b \in VertexIds :
        Edge(a, b).v \in DOMAIN d.edgeIndicesMap => Complementary(d.edgeIndicesMap, a, b)

C4_Formula ==
    \A d \in DecodedPrimitives : \A a, b \in VertexIds :
        (a # b /\ Edge(a, b).v \in DOMAIN d.edgeIndicesMap) =>
            Complementary(d.edgeIndicesMap, a, b)

\* A face block refers to one edge in both directions.
C4_Witness ==
    \E d \in DecodedPrimitives : \E n, m \in 1..Len(d.out.faces) :
        \E j \in 1..Len(d.out.faces[n].f) : \E l \in 1..Len(d.out.faces[m].f) :
            /\ d.out.faces[n].f[j] >= 0
            /\ d.out.faces[m].f[l] = -(d.out.faces[n].f[j] + 1)

(***************************************************************************)
(* The triangles of fans and strips, as vertex pairs, from the position    *)
(* index stream P of a group that starts at offset s.                      *)
(***************************************************************************)
\* Triangle i = 1..k-2 of a fan: (v0 -> v[i]), (v[i] -> v[i+1]), (v[i+1] -> v0).
FanTriangle(P, s, i) ==
    <<<<At(P, s), At(P, s + i)>>,
      <<At(P, s + i), At(P, s + i + 1)>>,
      <<At(P, s + i + 1), At(P, s)>>>>

\* Triangle i = 0..k-3 of a strip: the window (v[i], v[i+1], v[i+2]).
StripTriangle(P, s, i) ==
    <<<<At(P, s + i), At(P, s + i + 1)>>,
      <<At(P, s + i + 1), At(P, s + i + 2)>>,
      <<At(P, s + i + 2), At(P, s + i)>>>>

\* The triangles of all groups of a fans primitive, in order.
FanTriangles(prim) ==
    Flatten([g \in 1..Len(prim.counts) |->
                [i \in 1..(prim.counts[g] - 2) |->
                    [group |-> g - 1,
                     pairs |-> FanTriangle(prim.positionIndices,
                                           GroupStart(prim.counts, g), i)]]])

\* The triangles of all groups of a strips primitive, in order.
StripTriangles(prim) ==
    Flatten([g \in 1..Len(prim.counts) |->
                [i \in 1..(prim.counts[g] - 2) |->
                    [group |-> g - 1,
                     pairs |-> StripTriangle(prim.positionIndices,
                                             GroupStart(prim.counts, g), i - 1)]]])

\* The decoder's records are the given triangles: as many, each a face of
\* the three edges of its triangle and without a hole.
EmitsTriangles(d, triangles) ==
    /\ Len(d.out.faces) = Len(triangles)
    /\ \A n \in 1..Len(triangles) :
           /\ d.out.notes[n].group = triangles[n].group
           /\ d.out.notes[n].pairs = triangles[n].pairs
           /\ d.out.faces[n].f = Resolved(d.edgeIndicesMap, triangles[n].pairs)
           /\ Len(d.out.faces[n].f) = 3
           /\ d.out.faces[n].h = <<>>

(***************************************************************************)
(* C5: a fan of k >= 3 vertices v0..v[k-1] gives exactly k-2 faces of      *)
(* three edges and no hole, the i-th (i = 1..k-2) of the edges             *)
(* (v0 -> v[i]), (v[i] -> v[i+1]), (v[i+1] -> v0); with several fans in a  *)
(* primitive, each fan has its own first vertex as apex.                   *)
(***************************************************************************)
C5_Formula == \A d \in Decoded({"TRIANGLE_FANS"}) : EmitsTriangles(d, FanTriangles(d.prim))

\* A fan of four vertices followed by a fan of three has been decoded.
C5_Witness ==
    \E d \in Decoded({"TRIANGLE_FANS"}) :
        /\ d.prim.counts = TwoThenOne
        /\ Len(d.out.faces) = 3
        /\ At(d.prim.positionIndices, 0) # At(d.prim.positionIndices, 4)

(***************************************************************************)
(* C6: a strip of k >= 3 vertices gives exactly k-2 faces, the i-th        *)
(* (i = 0..k-3) of the window (v[i], v[i+1], v[i+2]) with the edges        *)
(* (v[i] -> v[i+1]), (v[i+1] -> v[i+2]), (v[i+2] -> v[i]); triangles that  *)
(* follow one another in a strip share the undirected edge                 *)
(* (v[i+1], v[i+2]), and the strip after it starts at its own first        *)
(* vertex.                                                                 *)
(***************************************************************************)
Undirected(pair) == {pair[1], pair[2]}

SharesEdge(d, n) ==
    d.out.notes[n].group = d.out.notes[n + 1].group =>
        Undirected(d.out.notes[n].pairs[2]) = Undirected(d.out.notes[n + 1].pairs[1])

C6_Formula ==
    \A d \in Decoded({"TRIANGLE_STRIPS"}) :
        /\ EmitsTriangles(d, StripTriangles(d.prim))
        /\ \A n \in 1..(Len(d.out.faces) - 1) : SharesEdge(d, n)

\* A strip of four vertices followed by a strip of three has been decoded.
C6_Witness ==
    \E d \in Decoded({"TRIANGLE_STRIPS"}) :
        /\ d.prim.counts = TwoThenOne
        /\ Len(d.out.faces) = 3
        /\ At(d.prim.positionIndices, 2) # At(d.prim.positionIndices, 4)

(***************************************************************************)
(* C7: the polygon decoder gives one record for each count, in order: a    *)
(* face of n edges for a count n > 0, a hole of m edges for a count -m,    *)
(* which belongs to the last face before it: it follows that face with     *)
(* only holes between, and in a polygons primitive its orientation is      *)
(* tested against that face.                                               *)
(* The counts <<4, -3>> give exactly one face of four edges with exactly   *)
(* one hole of three edges.                                                *)
(***************************************************************************)
\* The group (1-based) of the last face before group g.
OwningFace(counts, g) ==
    CHOOSE p \in 1..(g - 1) :
        counts[p] >= 0 /\ \A q \in (p + 1)..(g - 1) : counts[q] < 0

FirstThreePositions(d, g) ==
    [j \in 1..3 |->
        d.mesh.positions[At(d.prim.positionIndices, GroupStart(d.prim.counts, g) + j - 1)]]

C7_Formula ==
    \A d \in Decoded({"POLYGONS", "POLYLIST", "TRIANGLES"}) :
        LET counts == d.prim.counts
        IN  /\ Len(d.out.faces) = Len(counts)
            /\ \A g \in 1..Len(counts) :
                   IF counts[g] > 0
                   THEN /\ d.out.notes[g].kind = "face"
                        /\ Len(d.out.faces[g].f) = counts[g]
                        /\ d.out.faces[g].h = <<>>
                   ELSE /\ d.out.notes[g].kind = "hole"
                        /\ Len(d.out.faces[g].h) = -counts[g]
                        /\ d.out.faces[g].f = <<>>
                        /\ \E p \in 1..(g - 1) : counts[p] >= 0
                        /\ d.prim.type = "POLYGONS" =>
                               d.out.notes[g].polygonPoints =
                                   FirstThreePositions(d, OwningFace(counts, g))
            /\ counts = QuadWithHole =>
                   /\ Len(d.out.faces) = 2
                   /\ Len(d.out.faces[1].f) = 4 /\ d.out.faces[1].h = <<>>
                   /\ Len(d.out.faces[2].h) = 3 /\ d.out.faces[2].f = <<>>

\* A quad with a triangular hole has been decoded.
C7_Witness ==
    \E d \in Decoded({"POLYGONS"}) :
        /\ d.prim.counts = QuadWithHole
        /\ Len(d.out.faces) = 2
        /\ Len(d.out.faces[2].h) = 3

(***************************************************************************)
(* C8: a group of n >= 3 vertices at offset s of the position index stream *)
(* p of a polygons, polylist or triangles primitive forms exactly n edges: *)
(* (p[s+j] -> p[s+j+1]) for j = 0..n-2 and the closing edge                *)
(* (p[s+n-1] -> p[s]), and leaves the position cursor at s+n; a hole's     *)
(* edges are formed alike; a triangles primitive has n = 3.                *)
(***************************************************************************)
Ring(P, s, n) ==
    [j \in 1..n |-> IF j < n THEN <<At(P, s + j - 1), At(P, s + j)>>
                              ELSE <<At(P, s + n - 1), At(P, s)>>]

C8_Formula ==
    \A d \in Decoded({"POLYGONS", "POLYLIST", "TRIANGLES"}) :
        \A g \in 1..Len(d.out.notes) :
            LET n == Abs(d.prim.counts[g])
                s == GroupStart(d.prim.counts, g)
            IN  /\ d.out.notes[g].start = s
                /\ Len(d.out.notes[g].pairs) = n
                /\ d.out.notes[g].pairs = Ring(d.prim.positionIndices, s, n)
                /\ d.out.notes[g].raw = Resolved(d.edgeIndicesMap, d.out.notes[g].pairs)
                /\ d.out.notes[g].next = s + n
                /\ d.out.cursors[g].positionIndex = s + n
                /\ d.prim.type = "TRIANGLES" => n = 3

\* A triangle with a triangular hole has been decoded.
C8_Witness ==
    \E d \in Decoded({"POLYGONS"}) :
        /\ d.prim.counts = <<3, -3>>
        /\ Len(d.out.notes) = 2
        /\ d.out.notes[2].next = 6

(***************************************************************************)
(* C9: the hole orientation test is true exactly when the normal of the    *)
(* polygon and the normal of the hole, each (p1 - p0) x (p2 - p0) of the   *)
(* three points given, have a dot product above zero; it is false when the *)
(* dot product is zero or below, so whenever three points are collinear.   *)
(* The dot product of the two normals is written without a cross product:  *)
(* (a x b).(c x d) = (a.c)(b.d) - (a.d)(b.c).                              *)
(***************************************************************************)
Scalar(a, b) == a[1] * b[1] + a[2] * b[2] + a[3] * b[3]

Difference(points, j) == [c \in 1..3 |-> points[j][c] - points[1][c]]

NormalsProduct(polygonPoints, holePoints) ==
    LET a == Difference(polygonPoints, 2)
        b == Difference(polygonPoints, 3)
        c == Difference(holePoints, 2)
        d == Difference(holePoints, 3)
    IN  Scalar(a, c) * Scalar(b, d) - Scalar(a, d) * Scalar(b, c)

\* Three points on a line: the two differences are parallel.
Collinear(points) ==
    LET a == Difference(points, 2)
        b == Difference(points, 3)
    IN  Scalar(a, a) * Scalar(b, b) = Scalar(a, b) * Scalar(a, b)

C9_Formula ==
    \A k \in 1..Len(result) :
        /\ result[k] = (NormalsProduct(args.polygonPoints, args.holePoints) > 0)
        /\ (Collinear(args.polygonPoints) \/ Collinear(args.holePoints)) => ~result[k]

\* The test has been made for normals that are neither parallel nor
\* perpendicular and has been true.
C9_Witness ==
    /\ result = <<TRUE>>
    /\ args.polygonPoints = <<Position(0), Position(1), Position(2)>>
    /\ args.holePoints = <<Position(1), Position(2), Position(4)>>

(***************************************************************************)
(* C10: turning a hole of the signed references r(0)..r(m-1) round gives   *)
(* the hole whose j-th reference is -(r(m-1-j) + 1); turning it round      *)
(* twice gives the hole back; the face's own edge references and its UV    *)
(* and color indices stay as they are.                                     *)
(***************************************************************************)
C10_Formula ==
    \A k \in 1..Len(result) :
        /\ result[k].f = args.f /\ result[k].mu = args.mu /\ result[k].mc = args.mc
        /\ Len(result[k].h) = Len(args.h)
        /\ IF k % 2 = 1
           THEN \A j \in 0..(Len(args.h) - 1) :
                    At(result[k].h, j) = -(At(args.h, Len(args.h) - 1 - j) + 1)
           ELSE result[k].h = args.h

\* A hole with references of both directions, in a record with face edges
\* and channels, has been turned round twice.
C10_Witness ==
    /\ Len(result) = 2
    /\ \E j, l \in 1..Len(args.h) : args.h[j] < 0 /\ args.h[l] > 0
    /\ args.f # <<>> /\ args.mu # <<>> /\ args.mc # <<>>
    /\ result[1].h # args.h

(***************************************************************************)
(* What a written hole traverses: a reference r >= 0 goes along edge r of  *)
(* the written edge list from its first to its second vertex, a reference  *)
(* r < 0 along edge -(r+1) from its second to its first.                   *)
(***************************************************************************)
WrittenEdges(g) == RecordsOf(g, {"edge"})[1].edges

EmittedStart(edges, r) ==
    IF r >= 0 THEN edges[r + 1][1] ELSE edges[DecodeReference(r) + 1][2]

EmittedTraversal(g, refs) == [j \in 1..Len(refs) |-> EmittedStart(WrittenEdges(g), refs[j])]

\* The vertices of group g of the stream, in stream order.
SourceRing(d, g) ==
    [j \in 1..Abs(d.prim.counts[g]) |->
        At(d.prim.positionIndices, GroupStart(d.prim.counts, g) + j - 1)]

\* The ring walked the other way round from the same first vertex.
ReversedRing(ring) ==
    [j \in 1..Len(ring) |-> IF j = 1 THEN ring[1] ELSE ring[Len(ring) + 2 - j]]

\* The orientation test on the parent of hole g and on the first three
\* vertices of a traversal.
TestAgainstParent(d, g, traversal) ==
    changeHoleOrientation(FirstThreePositions(d, OwningFace(d.prim.counts, g)),
                          [j \in 1..3 |-> d.mesh.positions[traversal[j]]])

Holes(d) == {g \in 1..Len(d.prim.counts) : d.prim.counts[g] < 0}

ExpectedSlice(indexList, s, n) ==
    [j \in 1..n |-> At(indexList.indices, s + j - 1) - indexList.initialIndex]

ExpectedSlices(indexLists, s, n) ==
    [i \in 1..Len(indexLists) |->
        [set |-> indexLists[i].set, ids |-> ExpectedSlice(indexLists[i], s, n)]]

(***************************************************************************)
(* C12: in the polygon decoder the record of group g, a face or a hole of  *)
(* n edges whose vertices start at offset s of the position index stream,  *)
(* holds for every UV and every color index list exactly the n raw indices *)
(* at the offsets s..s+n-1 of that list, each less the list's initial      *)
(* index, and leaves both attribute cursors at s+n, where the slice of the *)
(* next group starts.  A face of four edges followed by one of three takes *)
(* the offsets 0..3 and then 4..6 of every list.                           *)
(***************************************************************************)
C12_Formula ==
    \A d \in Decoded({"POLYGONS", "POLYLIST", "TRIANGLES"}) :
        /\ \A g \in 1..Len(d.prim.counts) :
              LET n == Abs(d.prim.counts[g])
                  s == GroupStart(d.prim.counts, g)
              IN  /\ d.out.faces[g].mu = ExpectedSlices(d.prim.uv, s, n)
                  /\ d.out.faces[g].mc = ExpectedSlices(d.prim.color, s, n)
                  /\ d.out.cursors[g].uvSetIndicesIndex = s + n
                  /\ d.out.cursors[g].colorIndicesIndex = s + n
        /\ d.prim.counts = QuadThenTriangle =>
              /\ \A i \in 1..Len(d.prim.uv) :
                    /\ d.out.faces[1].mu[i].ids = ExpectedSlice(d.prim.uv[i], 0, 4)
                    /\ d.out.faces[2].mu[i].ids = ExpectedSlice(d.prim.uv[i], 4, 3)
              /\ \A i \in 1..Len(d.prim.color) :
                    /\ d.out.faces[1].mc[i].ids = ExpectedSlice(d.prim.color[i], 0, 4)
                    /\ d.out.faces[2].mc[i].ids = ExpectedSlice(d.prim.color[i], 4, 3)

\* A face of four edges and one of three have been decoded with two UV
\* lists and a color list, one of them with an initial index above zero.
C12_Witness ==
    \E d \in Decoded({"POLYGONS", "POLYLIST"}) :
        /\ d.prim.counts = QuadThenTriangle
        /\ Len(d.prim.uv) = 2 /\ Len(d.prim.color) = 1
        /\ d.prim.uv[2].initialIndex > 0
        /\ Len(d.out.faces) = 2
        /\ Len(d.out.faces[2].mu[2].ids) = 3
        /\ d.out.faces[2].mu[2].ids # d.out.faces[1].mu[2].ids

\* The number of stream entries of the first g groups of a primitive.
VerticesThrough(counts, g) == SumAbs(SubSeq(counts, 1, g))

(***************************************************************************)
(* C13 as claimed: in every decoder, when group g of a primitive has been  *)
(* decoded, the position cursor, the UV cursor and the color cursor all    *)
(* equal the number of vertices of the groups 1..g, so that no cursor      *)
(* moves backwards from one group to the next.  The strip decoder does not *)
(* keep it: after every strip it moves the UV and the color cursor back by *)
(* two more.                                                               *)
(***************************************************************************)
C13_Original ==
    \A d \in Decoded(DecodeTypes) :
        \A g \in 1..Len(d.prim.counts) :
            LET total == VerticesThrough(d.prim.counts, g)
            IN  /\ Len(d.out.cursors) = Len(d.prim.counts)
                /\ d.out.cursors[g] = Cursors(total, total, total)

\* The number of edges of a written record: those of the face or of the hole.
EdgesOf(polyFace) == Len(polyFace.f) + Len(polyFace.h)

\* The number of edges the source gives record n of a decoded primitive.
SourceEdges(d, n) ==
    IF IsPolygonType(d.prim.type) THEN Abs(d.prim.counts[n]) ELSE TriangleVertexCount

(***************************************************************************)
(* C14: every written record, a face or a hole, of every decoder holds one *)
(* attribute array for each UV and each color index list of the primitive, *)
(* and each array is as long as the record has edges: the absolute value   *)
(* of the count for a polygon or a hole, three for a triangle of a fan or  *)
(* of a strip.                                                             *)
(***************************************************************************)
C14_Formula ==
    \A d \in Decoded(DecodeTypes) :
        \A n \in 1..Len(d.out.faces) :
            LET polyFace == d.out.faces[n]
            IN  /\ EdgesOf(polyFace) = SourceEdges(d, n)
                /\ Len(polyFace.mu) = Len(d.prim.uv)
                /\ Len(polyFace.mc) = Len(d.prim.color)
                /\ \A i \in 1..Len(polyFace.mu) :
                       Len(polyFace.mu[i].ids) = EdgesOf(polyFace)
                /\ \A i \in 1..Len(polyFace.mc) :
                       Len(polyFace.mc[i].ids) = EdgesOf(polyFace)

\* A hole of three edges has been written with two UV arrays and a color
\* array.
C14_Witness ==
    \E d \in Decoded({"POLYGONS"}) :
        /\ d.prim.counts = QuadWithHole
        /\ Len(d.out.faces) = 2
        /\ Len(d.out.faces[2].h) = 3
        /\ Len(d.out.faces[2].mu) = 2 /\ Len(d.out.faces[2].mc) = 1
        /\ Len(d.out.faces[2].mu[2].ids) = 3
        /\ Len(d.out.faces[2].mc[1].ids) = 3

\* The number of faces among the records a decoder has written; a hole
\* belongs to the face before it.
FacesEmitted(out) == Cardinality({n \in 1..Len(out.notes) : out.notes[n].kind = "face"})

\* The number of faces written by the first i primitives of a face block.
RECURSIVE FacesThrough(_, _)
FacesThrough(byPrimitive, i) ==
    IF i = 0 THEN 0
    ELSE FacesThrough(byPrimitive, i - 1) + FacesEmitted(byPrimitive[i])

(***************************************************************************)
(* C15 as claimed: for a written mesh of more than one primitive, for each *)
(* instance j and each primitive i exactly one object group range is       *)
(* written, and it is the range of the indices that the faces written by   *)
(* primitive i have in the mesh's face list; for a mesh of one primitive   *)
(* no range is written.  The ranges written count the groups of a          *)
(* primitive, not its faces.                                               *)
(***************************************************************************)
C15_Original ==
    \A g \in MeshIds : \A k \in PlacesOf(g, {"face"}) :
        LET ranges == RecordsOf(g, {"objectGrpCompList"})
            P == Len(doc[g].geometry.prims)
        IN  IF P > 1
            THEN \A j \in 0..(Len(doc[g].transformNodes) - 1) : \A i \in 0..(P - 1) :
                    /\ Cardinality({r \in 1..Len(ranges) :
                                       ranges[r].j = j /\ ranges[r].i = i}) = 1
                    /\ \A r \in 1..Len(ranges) :
                          (ranges[r].j = j /\ ranges[r].i = i) =>
                             /\ ranges[r].first = FacesThrough(file[k].byPrimitive, i)
                             /\ ranges[r].last =
                                    FacesThrough(file[k].byPrimitive, i + 1) - 1
            ELSE ranges = <<>>

\* The meshes that createMesh has written.
Converted == {g \in MeshIds : g \in mMayaDMMeshNodesMap}

\* The material ids of the primitives of the scene.
MaterialIds == UNION {{doc[g].geometry.prims[i].material :
                          i \in 1..Len(doc[g].geometry.prims)} : g \in MeshIds}

\* The ordinals 0..P-1 of the primitives of a mesh with a material, ascending.
OrdinalsWith(mesh, material) ==
    SelectSeq([i \in 1..Len(mesh.prims) |-> i - 1],
              LAMBDA ordinal : mesh.prims[ordinal + 1].material = material)

(***************************************************************************)
(* C16: whatever calls of importGeometry were made, for every converted    *)
(* mesh and every material id the list kept for (mesh id, material id) is  *)
(* the ascending list of the ordinals of the mesh's primitives with that   *)
(* material, so that the lists of a mesh hold every ordinal 0..P-1 once;   *)
(* and there is no list for a mesh that was not converted.  As this holds  *)
(* in every state, converting one mesh leaves the lists of the others as   *)
(* they were.                                                              *)
(***************************************************************************)
C16_Formula ==
    /\ \A g \in Converted : \A material \in MaterialIds :
          getShadingEnginePrimitiveIndices(mShadingEnginePrimitivesMap, g, material)
              = OrdinalsWith(doc[g].geometry, material)
    /\ \A key \in DOMAIN mShadingEnginePrimitivesMap :
          /\ key[1] \in Converted
          /\ mShadingEnginePrimitivesMap[key] # <<>>

\* Two meshes have been converted, the second one with three primitives of
\* which two share a material that the first mesh uses too.
C16_Witness ==
    /\ Len(calls) = 2
    /\ Converted = GeometryIds
    /\ Len(doc[calls[2]].geometry.prims) = 3
    /\ \E material \in MaterialIds :
          /\ Len(getShadingEnginePrimitiveIndices(mShadingEnginePrimitivesMap,
                                                  calls[2], material)) = 2
          /\ Len(getShadingEnginePrimitiveIndices(mShadingEnginePrimitivesMap,
                                                  calls[1], material)) >= 1

(***************************************************************************)
(* C17: for a converted mesh whose edge table holds N > 0 edges exactly    *)
(* one edge block is written, for the indices 0..N-1, and its k-th record  *)
(* (k = 0..N-1) is the vertex pair that the table maps to the index k,     *)
(* followed by the hardness flag, which is the same in every record; for   *)
(* an empty table no edge block is written.                                *)
(***************************************************************************)
C17_Formula ==
    \A g \in Converted :
        LET table == getEdgeIndices(doc[g].geometry)
            N == Len(table.edgeIndices)
            written == RecordsOf(g, {"edge"})
        IN  IF N = 0 THEN written = <<>>
            ELSE /\ Len(written) = 1
                 /\ written[1].first = 0 /\ written[1].last = N - 1
                 /\ Len(written[1].edges) = N
                 /\ \A k \in 1..N :
                       LET record == written[1].edges[k]
                       IN  /\ <<record[1], record[2]>> \in DOMAIN table.edgeIndicesMap
                           /\ table.edgeIndicesMap[<<record[1], record[2]>>] = k - 1
                           /\ record[3] = written[1].edges[1][3]

\* A mesh whose stream of six entries walks some edge twice has been
\* written with three edges.
C17_Witness ==
    \E g \in Converted :
        /\ Len(doc[g].geometry.prims) = 1
        /\ Len(doc[g].geometry.prims[1].positionIndices) = 6
        /\ EdgeCount(g) = 3
        /\ WrittenEdges(g)[3][1] # WrittenEdges(g)[1][1]

\* The primitives (1-based) of a mesh whose type is not implemented.
Unsupported(mesh) == {i \in 1..Len(mesh.prims) : ~IsImplemented(mesh.prims[i].type)}

NotImplementedReports ==
    Cardinality({k \in 1..Len(errors) : errors[k] = "Primitive type not implemented!"})

(***************************************************************************)
(* C18 as claimed: for a converted mesh with a primitive of a type that is *)
(* not implemented the face block is written and closed; in it such a      *)
(* primitive has no face, every other primitive, the later ones included,  *)
(* has the faces its decoder gives, and the block holds the faces of the   *)
(* primitives in their order; and one diagnostic is reported for each such *)
(* primitive.  A mesh without any face gets no face block and no           *)
(* diagnostic, whatever its primitives are.                                *)
(***************************************************************************)
C18_Original ==
    /\ \A g \in Converted :
          LET mesh == doc[g].geometry
          IN  Unsupported(mesh) # {} =>
                 /\ Len(RecordsOf(g, {"face"})) = 1
                 /\ \A k \in PlacesOf(g, {"face"}) :
                       /\ \A i \in 1..Len(mesh.prims) :
                             file[k].byPrimitive[i].faces =
                                 IF i \in Unsupported(mesh) THEN <<>>
                                 ELSE appendPrimitivePolyFaces(
                                          DecodeEnv(mesh, mesh.prims[i],
                                                    getEdgeIndices(mesh).edgeIndicesMap,
                                                    build.oob)).faces
                       /\ file[k].faces =
                             Flatten([i \in 1..Len(mesh.prims) |->
                                         file[k].byPrimitive[i].faces])
    /\ NotImplementedReports =
          Cardinality(UNION {{<<g, i>> : i \in Unsupported(doc[g].geometry)} :
                                g \in Converted})

(***************************************************************************)
(* C19: when a looked-up edge is not in the edge table, no face or hole    *)
(* that holds a reference from the failed look-up is written and no face   *)
(* after it: the faces written end before the first record that misses.    *)
(***************************************************************************)
LookupNotes == notesOf(writeFaces(args.mesh, args.edgeIndicesMap, build.oob))

Occurrences(g) == DOMAIN doc[g].transformNodes

Placed(g, parent) ==
    \E k \in DOMAIN file : /\ file[k].op \in {"createNode", "parentShape"}
                           /\ file[k].id = g
                           /\ file[k].parent = parent

Grouped(g, j) ==
    \/ \E k \in DOMAIN file : /\ file[k].op = "groupId"
                              /\ file[k].id = g
                              /\ file[k].instance = j - 1
    \/ \E k \in DOMAIN mGroupIdAssignments :
          /\ mGroupIdAssignments[k].geometryId = g
          /\ mGroupIdAssignments[k].instance = j - 1

SkippedWithDiagnostic(g, j) ==
    /\ ~crashed
    /\ errors # <<>>
    /\ ~Placed(g, NullNode)
    /\ ~Grouped(g, j)

C20_Original ==
    \A g \in DOMAIN doc :
        (\E c \in DOMAIN calls : calls[c] = g) =>
            \A j \in Occurrences(g) :
                IF doc[g].transformNodes[j].resolved
                THEN Placed(g, doc[g].transformNodes[j].id)
                ELSE SkippedWithDiagnostic(g, j)

(***************************************************************************)
(* C21: every call of importGeometry for a geometry of a type that is not  *)
(* converted (a convex mesh, a spline, any other type tag) displays an     *)
(* error, registers nothing and writes nothing, and leaves the importer    *)
(* able to take the next call.                                             *)
(***************************************************************************)
IsUnsupportedGeometry(geometry) == geometry.type \notin {"MESH", "NULL"}

CalledGeometry == doc[calls'[Len(calls')]].geometry

C21_Original ==
    [][(calls' # calls /\ IsUnsupportedGeometry(CalledGeometry))
        => /\ Len(errors') > Len(errors)
           /\ UNCHANGED <<mMayaMeshNodesMap, mMayaDMMeshNodesMap, mGroupIdAssignments,
                          mShadingEnginePrimitivesMap, file>>
           /\ ~crashed']_vars

(***************************************************************************)
(* C22: when the positions of an imported mesh have a value type that is   *)
(* neither float nor double, an error is displayed, no position is         *)
(* written, and neither the edges nor the faces of the mesh are written.   *)
(***************************************************************************)
Wrote(g, op) == \E k \in DOMAIN file : file[k].op = op /\ file[k].id = g

\* The meshes createMesh has got past the test of the transform node with.
Created(g) == Called(g) /\ Wrote(g, "createNode")

C22_Original ==
    \A g \in DOMAIN doc :
        (Created(g) /\ ~IsFloatingType(doc[g].geometry.positionsType))
        => /\ errors # <<>>
           /\ ~Wrote(g, "vrts")
           /\ ~Wrote(g, "edge")
           /\ ~Wrote(g, "face")

(***************************************************************************)
(* The slices the n stream entries from offset s on give for a sequence of *)
(* index lists, as the decoders read them: an entry outside a list is what *)
(* the build finds there.                                                  *)
(***************************************************************************)
SlicesFrom(indexLists, s, n) ==
    [i \in 1..Len(indexLists) |->
        [set |-> indexLists[i].set,
         ids |-> [j \in 1..n |-> getIndex(indexLists[i].indices, s + j - 1, build.oob)
                                   - indexLists[i].initialIndex]]]

\* Record n of a decoded fan or strip holds the slices from offset s on.
TakesFrom(d, n, s) ==
    /\ d.out.faces[n].mu = SlicesFrom(d.prim.uv, s, TriangleVertexCount)
    /\ d.out.faces[n].mc = SlicesFrom(d.prim.color, s, TriangleVertexCount)

\* The records n of a decoded primitive that are followed by a record of the
\* same group.
FollowedInGroup(d) ==
    {n \in 1..(Len(d.out.faces) - 1) : d.out.notes[n].group = d.out.notes[n + 1].group}

SliceOffsets == (-(2 * MaxStreamLen))..(2 * MaxStreamLen)

\* From the take of one triangle of a group to the take of the next, the
\* attribute cursors move on by advance.
SuccessiveSlices(advance) ==
    \A d \in Decoded({"TRIANGLE_FANS", "TRIANGLE_STRIPS"}) :
        \A n \in FollowedInGroup(d) :
            \E s \in SliceOffsets : TakesFrom(d, n, s) /\ TakesFrom(d, n + 1, s + advance)

(***************************************************************************)
(* C23 as claimed: in the fan and in the strip decoder the UV and the      *)
(* color cursor move on by three from the take of one triangle to the take *)
(* of the next, so that the triangles of a group take slices that do not   *)
(* overlap.                                                                *)
(***************************************************************************)
C23_Original == SuccessiveSlices(TriangleVertexCount)

(***************************************************************************)
(* C23: in the fan and in the strip decoder every triangle takes three     *)
(* indices of each UV and each color index list; the take moves the cursor *)
(* on by three and the decoder moves it back by two, so that from one      *)
(* triangle of a group to the next the cursors move on by one and the two  *)
(* slices share two stream entries.  The first triangle of a primitive     *)
(* takes the offsets 0..2.                                                 *)
(***************************************************************************)
C23_Formula ==
    /\ SuccessiveSlices(1)
    /\ \A d \in Decoded({"TRIANGLE_FANS", "TRIANGLE_STRIPS"}) :
          /\ \A n \in 1..Len(d.out.faces) :
                /\ Len(d.out.faces[n].mu) = Len(d.prim.uv)
                /\ Len(d.out.faces[n].mc) = Len(d.prim.color)
                /\ \A i \in 1..Len(d.prim.uv) :
                      Len(d.out.faces[n].mu[i].ids) = TriangleVertexCount
          /\ d.out.faces # <<>> => TakesFrom(d, 1, 0)

\* A group of two triangles has been decoded with a UV and a color list:
\* the first triangle took the offsets 0..2, the second the offsets 1..3.
C23_Witness ==
    \E d \in Decoded({"TRIANGLE_FANS", "TRIANGLE_STRIPS"}) :
        /\ d.prim.counts = <<TriangleVertexCount + 1>>
        /\ Len(d.prim.uv) > 0 /\ Len(d.prim.color) > 0
        /\ Len(d.out.faces) = 2
        /\ TakesFrom(d, 1, 0) /\ TakesFrom(d, 2, 1)
        /\ d.out.faces[1].mu[1].ids # d.out.faces[2].mu[1].ids
        /\ ~d.out.ub

(***************************************************************************)
(* C24: in createMesh the edge table holds the edges of all primitives of  *)
(* the mesh before the edge list is written and before a face is decoded,  *)
(* and it is the same table for as long as faces are decoded; the edge     *)
(* list is written before the first face; the map of shading engines is    *)
(* filled only when the last primitive is decoded and the face block is    *)
(* closed.  Statement by statement createMesh writes what it writes as a   *)
(* whole.                                                                  *)
(***************************************************************************)
PlaceOf(op) == CHOOSE k \in DOMAIN file : file[k].op = op

HasRecord(op) == \E k \in DOMAIN file : file[k].op = op

NoImporter ==
    [mMayaMeshNodesMap |-> [k \in {} |-> 0], mMayaDMMeshNodesMap |-> {},
     mGroupIdAssignments |-> <<>>, mShadingEnginePrimitivesMap |-> [k \in {} |-> 0],
     file |-> <<>>, errors |-> <<>>, crashed |-> FALSE]

C24_Formula ==
    LET mesh == args.mesh
        whole == getEdgeIndices(mesh)
        past == result.pc # "getEdgeIndices"
    IN  /\ (past \/ result.byPrimitive # <<>> \/ HasRecord("edge") \/ HasRecord("face"))
              => result.table = whole
        /\ HasRecord("edge") => file[PlaceOf("edge")].edges = writeEdges(whole.edgeIndices)
        /\ (result.byPrimitive # <<>> /\ whole.edgeIndices # <<>>) => HasRecord("edge")
        /\ (HasRecord("face") /\ whole.edgeIndices # <<>>)
              => HasRecord("edge") /\ PlaceOf("edge") < PlaceOf("face")
        /\ mShadingEnginePrimitivesMap # [k \in {} |-> 0]
              => /\ result.pc = "done"
                 /\ getFacesCount(mesh) > 0
                       => HasRecord("face") /\ Len(result.byPrimitive) = Len(mesh.prims)
        /\ result.pc # "done" => mShadingEnginePrimitivesMap = [k \in {} |-> 0]
        /\ result.pc = "done"
              => Imp = createMesh(NoImporter, mesh, args.mayaTransformNode, 1, build)

\* createMesh has come to its end for a mesh of several primitives of which
\* the first does not have all the edges: the edge list and the faces are
\* written and the map of shading engines is filled.
C24_Witness ==
    /\ result.pc = "done"
    /\ Len(args.mesh.prims) > 1
    /\ appendEdgeIndices(args.mesh.prims[1], EmptyEdgeTable) # result.table
    /\ HasRecord("edge") /\ HasRecord("face")
    /\ PlaceOf("edge") < PlaceOf("face")
    /\ Len(result.byPrimitive) = Len(args.mesh.prims)
    /\ mShadingEnginePrimitivesMap # [k \in {} |-> 0]

(***************************************************************************)
(* C25: when a mesh of P primitives used by n transform nodes has been     *)
(* imported, its group assignments are, for P > 1, one for every pair of   *)
(* an instance j in 0..n-1 and a primitive i in 0..P-1, instance by        *)
(* instance and in each primitive by primitive, and these are the pairs    *)
(* an object group range was written for with the mesh; for P <= 1 there   *)
(* is no assignment and no range.                                          *)
(***************************************************************************)
RECURSIVE AssignmentsOf(_, _)
AssignmentsOf(g, k) ==
    IF k = 0 THEN <<>>
    ELSE AssignmentsOf(g, k - 1)
         \o (IF mGroupIdAssignments[k].geometryId = g
             THEN <<<<mGroupIdAssignments[k].instance, mGroupIdAssignments[k].primitive>>>>
             ELSE <<>>)

RangePairs(g) ==
    {<<file[k].j, file[k].i>> : k \in {p \in DOMAIN file :
                                          file[p].op = "objectGrpCompList" /\ file[p].id = g}}

\* The pairs, instance by instance and primitive by primitive.
PairsInOrder(n, P) == [k \in 1..(n * P) |-> <<(k - 1) \div P, (k - 1) % P>>]

C25_Formula ==
    \A g \in MeshIds :
        Called(g) =>
            LET P == Len(doc[g].geometry.prims)
                n == Len(doc[g].transformNodes)
                assigned == AssignmentsOf(g, Len(mGroupIdAssignments))
            IN  /\ assigned = IF P > 1 THEN PairsInOrder(n, P) ELSE <<>>
                /\ {assigned[k] : k \in DOMAIN assigned} = RangePairs(g)

\* A mesh of three primitives used by two transform nodes has been imported:
\* it has six group assignments.
C25_Witness ==
    \E g \in MeshIds :
        /\ Called(g)
        /\ Len(doc[g].geometry.prims) = 3
        /\ Len(doc[g].transformNodes) = 2
        /\ AssignmentsOf(g, Len(mGroupIdAssignments))
              = <<<<0, 0>>, <<0, 1>>, <<0, 2>>, <<1, 0>>, <<1, 1>>, <<1, 2>>>>
        /\ Cardinality(RangePairs(g)) = 6

(***************************************************************************)
(* The offsets in the position index stream of the vertices of the records *)
(* of a decoded primitive, the j-th being the start vertex of the record's *)
(* j-th edge as written.                                                   *)
(***************************************************************************)
\* Triangle i = 1..k-2 of a fan that starts at offset s.
FanOffsets(s, i) == <<s, s + i, s + i + 1>>

\* Triangle i = 0..k-3 of a strip that starts at offset s.
StripOffsets(s, i) == <<s + i, s + i + 1, s + i + 2>>

\* A face or hole of n edges from offset s on; a hole that was turned round
\* starts its j-th edge where the edge n+1-j of the source ends.
RingOffsets(s, n, changed) ==
    [j \in 1..n |-> IF changed THEN s + ((n + 1 - j) % n) ELSE s + j - 1]

VertexOffsets(d) ==
    CASE d.prim.type = "TRIANGLE_FANS" ->
            Flatten([g \in 1..Len(d.prim.counts) |->
                        [i \in 1..(d.prim.counts[g] - 2) |->
                            FanOffsets(GroupStart(d.prim.counts, g), i)]])
      [] d.prim.type = "TRIANGLE_STRIPS" ->
            Flatten([g \in 1..Len(d.prim.counts) |->
                        [i \in 1..(d.prim.counts[g] - 2) |->
                            StripOffsets(GroupStart(d.prim.counts, g), i - 1)]])
      [] OTHER ->
            [g \in 1..Len(d.prim.counts) |->
                RingOffsets(GroupStart(d.prim.counts, g), Abs(d.prim.counts[g]),
                            d.out.notes[g].changed)]

\* The attribute indices an index list holds at the given offsets.
ReadAt(indexList, offsets) ==
    [j \in 1..Len(offsets) |->
        getIndex(indexList.indices, offsets[j], build.oob) - indexList.initialIndex]

\* Record n of d holds for every index list the indices at the offsets.
AttributesAt(d, n, offsets) ==
    /\ \A i \in 1..Len(d.prim.uv) :
          d.out.faces[n].mu[i].ids = ReadAt(d.prim.uv[i], offsets)
    /\ \A i \in 1..Len(d.prim.color) :
          d.out.faces[n].mc[i].ids = ReadAt(d.prim.color[i], offsets)

(***************************************************************************)
(* C26 as claimed: in every record written by a decoder the j-th entry of  *)
(* every attribute array is the index its list holds at the offset at      *)
(* which the position index stream holds the record's j-th vertex; every   *)
(* triangle of a fan has the attribute of the apex from the offset of the  *)
(* apex.                                                                   *)
(***************************************************************************)
C26_Original ==
    \A d \in Decoded(DecodeTypes) :
        /\ Len(VertexOffsets(d)) = Len(d.out.faces)
        /\ \A n \in 1..Len(d.out.faces) : AttributesAt(d, n, VertexOffsets(d)[n])

(***************************************************************************)
(* C27 as claimed: whenever the polygon decoder tests the orientation of a *)
(* hole, of a polygons, polylist or triangles primitive, the parent buffer *)
(* holds the positions of the first three vertices of the last group       *)
(* before the hole that is not a hole, and the hole buffer holds the       *)
(* positions of the first three vertices of the hole.                      *)
(***************************************************************************)
\* The last group before group g that is a face; 0 when there is none.
ParentGroup(counts, g) ==
    IF \A h \in 1..(g - 1) : counts[h] < 0 THEN 0
    ELSE CHOOSE h \in 1..(g - 1) :
             counts[h] >= 0 /\ \A k \in (h + 1)..(g - 1) : counts[k] < 0

\* The positions of the first three vertices of group g of a primitive.
FirstThreePoints(mesh, prim, g) ==
    [j \in 1..TriangleVertexCount |->
        mesh.positions[At(prim.positionIndices, GroupStart(prim.counts, g) + j - 1)]]

C27_Original ==
    \A d \in Decoded({"POLYGONS", "POLYLIST", "TRIANGLES"}) :
        \A g \in 1..Len(d.prim.counts) :
            d.prim.counts[g] < 0 =>
                /\ ParentGroup(d.prim.counts, g) > 0
                /\ d.out.notes[g].polygonPoints =
                       FirstThreePoints(d.mesh, d.prim, ParentGroup(d.prim.counts, g))
                /\ d.out.notes[g].holePoints = FirstThreePoints(d.mesh, d.prim, g)

\* The triangles an edge loop of numEdges steps closes, one at every third
\* step, and the steps left over.
UIntThird(a) == (a.hi \div 3) * HalfRange + ((a.hi % 3) * HalfRange + a.lo) \div 3
UIntThirdRest(a) == ((a.hi % 3) * HalfRange + a.lo) % 3

\* The triangles of a fan or strip of k vertices.
ExpectedTriangles(k) == IF k > 2 THEN k - 2 ELSE 0

EdgeCountIs(numEdges, k) ==
    UIntThird(numEdges) = ExpectedTriangles(k) /\ UIntThirdRest(numEdges) = 0

\* The records decoded from group g (counted from 1) and the advance of the
\* position cursor over it.
GroupRecords(out, g) == {r \in DOMAIN out.notes : out.notes[r].group = g - 1}
GroupAdvance(out, g) ==
    out.cursors[g].positionIndex
        - (IF g = 1 THEN 0 ELSE out.cursors[g - 1].positionIndex)

GroupDecodedExactly(out, counts, g) ==
    /\ EdgeCountIs(TriangleGroupEdges(counts[g]), counts[g])
    /\ Cardinality(GroupRecords(out, g)) = ExpectedTriangles(counts[g])
    /\ GroupAdvance(out, g) = counts[g]

\* C28: for every fan or strip group of k vertices, k any unsigned value, the
\* edge count ( k - 3 ) * 3 + 3 computed in unsigned int is three times
\* max(k - 2, 0), the decoder emits max(k - 2, 0) triangles and advances the
\* position cursor by k, and it reads nothing outside the stream.
C28_Original ==
    result # <<>> =>
        /\ EdgeCountIs(result[2], args.vertexCount)
        /\ ~result[1].ub
        /\ \A g \in DOMAIN args.mesh.prims[1].counts :
              GroupDecodedExactly(result[1], args.mesh.prims[1].counts, g)

\* The edge list and the face stream of g stand in the file before place k.
GeometryBefore(g, k) ==
    /\ \E e \in PlacesOf(g, {"edge"}) : e < k
    /\ \E f \in PlacesOf(g, {"face"}) : f < k

\* C29: once a call has returned, a mesh that is registered as imported has
\* its edge list and its face stream in the file, and every parentShape
\* written for it stands behind them, also when the first transform node of
\* the mesh was not found.
C29_Original ==
    ~crashed =>
        \A g \in DOMAIN doc :
            /\ g \in DOMAIN mMayaMeshNodesMap => GeometryBefore(g, Len(file) + 1)
            /\ \A k \in PlacesOf(g, {"parentShape"}) : GeometryBefore(g, k)

=============================================================================
